---- MODULE Spec2Model ----
(***************************************************************************)
(* Model of the interaction engine of judo (src/src/app/events.rs,         *)
(* src/src/app/state.rs, src/src/ui/cursor.rs and the list/item            *)
(* components).  One key event is one step: the frame is rendered from the *)
(* current state (App::run draws before it reads), then the handler of the *)
(* current screen runs to completion.                                      *)
(***************************************************************************)
EXTENDS Integers, Sequences, FiniteSets, TLC

VARIABLES
    app,        \* the App struct (src/src/app/state.rs:53-86)
    store,      \* the rows of the SQLite database behind app.pool
    key,        \* the key event handled by the last step
    failed,     \* a delegated storage call of the last step returned Err
    panicked    \* the process aborted on a Rust panic in the last step

vars == <<app, store, key, failed, panicked>>

\* ------------------------------------------------------------------ bounds
\* longest text typed into the cursor editor of a modal text screen
MaxText == 2
\* AUTOINCREMENT ids handed out per database: lists, items
MaxListId == 3
MaxItemId == 3
\* longest run of keys kept in keys_buffer
MaxKeysBuffer == 2
\* largest selection index short of usize::MAX (a list that is not rendered
\* keeps whatever index the keys have counted up to)
MaxIndex == 3
\* most databases the config lists
MaxDbs == 2

\* ------------------------------------------------------------ Rust strings
\* A String is modelled as the sequence of its chars; a char is an atom with
\* its UTF-8 width, so that byte offsets and char offsets differ.
\* "e_acute" stands for U+00E9, two bytes in UTF-8.
Chars == {"a", "e_acute", " "}

len_utf8(c) == IF c = "e_acute" THEN 2 ELSE 1

RECURSIVE ByteLen(_)
ByteLen(s) == IF s = <<>> THEN 0 ELSE len_utf8(Head(s)) + ByteLen(Tail(s))

\* str::chars().count()
char_count(s) == Len(s)

\* str::is_char_boundary: byte offset idx falls between two chars
is_char_boundary(s, idx) ==
    \E k \in 0..Len(s) : ByteLen(SubSeq(s, 1, k)) = idx

\* the number of chars that end at or before byte offset idx (a boundary)
CharsBefore(s, idx) ==
    CHOOSE k \in 0..Len(s) : ByteLen(SubSeq(s, 1, k)) = idx

\* String::insert(idx, ch): idx is a BYTE offset; panics off a char boundary
String_insert_panics(s, idx) == ~is_char_boundary(s, idx)

String_insert(s, idx, c) ==
    LET k == CharsBefore(s, idx)
    IN  SubSeq(s, 1, k) \o <<c>> \o SubSeq(s, k + 1, Len(s))

\* String::remove(idx): idx is a BYTE offset; panics off a char boundary and
\* at the end of the string
String_remove_panics(s, idx) ==
    \/ ~is_char_boundary(s, idx)
    \/ idx >= ByteLen(s)

String_remove(s, idx) ==
    LET k == CharsBefore(s, idx)
    IN  SubSeq(s, 1, k) \o SubSeq(s, k + 2, Len(s))

\* str::trim().is_empty()
IsBlank(s) == \A i \in 1..Len(s) : s[i] = " "

\* ------------------------------------------------------------ CursorState
\* An editor operation returns the buffer and whether it panicked; a panic
\* leaves the buffer as it was when the panic was raised.
InputState_default == [current_input |-> <<>>, cursor_pos |-> 0, is_modifying |-> FALSE]

EdOk(st) == [st |-> st, panic |-> FALSE]
EdPanic(st) == [st |-> st, panic |-> TRUE]

add_char(st, c) ==
    LET pos == st.cursor_pos
    IN  IF String_insert_panics(st.current_input, pos)
        THEN EdPanic(st)
        ELSE EdOk([st EXCEPT !.current_input = String_insert(st.current_input, pos, c),
                             !.cursor_pos = pos + 1])

remove_char_before_cursor(st) ==
    LET pos == st.cursor_pos
    IN  IF pos > 0
        THEN IF String_remove_panics(st.current_input, pos - 1)
             THEN EdPanic(st)
             ELSE EdOk([st EXCEPT !.current_input = String_remove(st.current_input, pos - 1),
                                  !.cursor_pos = pos - 1])
        ELSE EdOk(st)

delete_char_after_cursor(st) ==
    LET pos == st.cursor_pos
        text_len == char_count(st.current_input)
    IN  IF pos < text_len
        THEN EdOk([st EXCEPT !.current_input =
                       SubSeq(st.current_input, 1, pos)
                           \o SubSeq(st.current_input, pos + 2, text_len)])
        ELSE EdOk(st)

move_cursor_left(st) ==
    LET pos == st.cursor_pos
    IN  IF pos > 0 THEN EdOk([st EXCEPT !.cursor_pos = pos - 1]) ELSE EdOk(st)

\* fault: the cursor moves right without looking at the length of the text
move_cursor_right_unchecked(st) == EdOk([st EXCEPT !.cursor_pos = st.cursor_pos + 1])

move_cursor_right(st) ==
    LET pos == st.cursor_pos
        text_len == char_count(st.current_input)
    IN  IF pos < text_len THEN EdOk([st EXCEPT !.cursor_pos = pos + 1]) ELSE EdOk(st)

clear(st) == EdOk([st EXCEPT !.current_input = <<>>, !.cursor_pos = 0])

\* ------------------------------------------------------- Option and usize
\* Option<usize>: None is -1, Some(i) is i.  usize::MAX is kept symbolic as
\* the largest value the checker can hold; every use of it saturates.
None == -1
USIZE_MAX == 2147483646 + 1

Min(a, b) == IF a < b THEN a ELSE b

saturating_add(i, n) == IF i >= USIZE_MAX - n THEN USIZE_MAX ELSE i + n
saturating_sub(i, n) == IF n >= i THEN 0 ELSE i - n

\* ------------------------------------------------- ratatui ListState calls
\* as made by ItemsComponent / ListsComponent; the index is NOT clamped to
\* the collection here, only when the list is next rendered.
ListState_select_next(sel) == IF sel = None THEN 0 ELSE saturating_add(sel, 1)
ListState_select_previous(sel) == IF sel = None THEN USIZE_MAX ELSE saturating_sub(sel, 1)
ListState_select_first(sel) == 0
ListState_select_last(sel) == USIZE_MAX
ListState_scroll_down_by(sel, amount) ==
    saturating_add(IF sel = None THEN 0 ELSE sel, amount)
ListState_scroll_up_by(sel, amount) ==
    saturating_sub(IF sel = None THEN 0 ELSE sel, amount)

\* List::render on a ListState: an empty list clears the selection, an
\* index past the end becomes the last index.
ListState_rendered(sel, len) ==
    IF len = 0 THEN None
    ELSE IF sel # None /\ sel >= len THEN len - 1
    ELSE sel

\* ---------------------------------------------------------------- storage
\* One database: its lists in persisted order, each with its items in
\* persisted order, and the next AUTOINCREMENT ids.
\* A stored list is [id, name, items]; a stored item is [id, name, is_done].
RemoveAt(seq, i) == SubSeq(seq, 1, i - 1) \o SubSeq(seq, i + 1, Len(seq))

InsertAt(seq, i, x) == SubSeq(seq, 1, i - 1) \o <<x>> \o SubSeq(seq, i, Len(seq))

\* position (1-based) of the entity with this id, 0 when absent
PosOf(seq, id) ==
    IF \E i \in 1..Len(seq) : seq[i].id = id
    THEN CHOOSE i \in 1..Len(seq) : seq[i].id = id
    ELSE 0

Ids(seq) == {seq[i].id : i \in 1..Len(seq)}

\* TodoList::create: INSERT, appended last
TodoList_create(db, name) ==
    [db EXCEPT !.lists = Append(@, [id |-> db.next_list, name |-> name, items |-> <<>>]),
               !.next_list = @ + 1]

\* TodoList::update_name: UPDATE ... WHERE id
TodoList_update_name(db, id, name) ==
    [db EXCEPT !.lists = [i \in 1..Len(@) |->
        IF @[i].id = id THEN [@[i] EXCEPT !.name = name] ELSE @[i]]]

\* TodoList::delete: DELETE ... WHERE id, the items go with it (CASCADE)
TodoList_delete(db, id) ==
    LET p == PosOf(db.lists, id)
    IN  IF p = 0 THEN db ELSE [db EXCEPT !.lists = RemoveAt(@, p)]

\* TodoItem::create: INSERT; the foreign key rejects an unknown list_id
TodoItem_create_rejected(db, list_id) == list_id \notin Ids(db.lists)

TodoItem_create(db, list_id, name) ==
    [db EXCEPT !.lists = [i \in 1..Len(@) |->
        IF @[i].id = list_id
        THEN [@[i] EXCEPT !.items =
                 Append(@, [id |-> db.next_item, name |-> name, is_done |-> FALSE])]
        ELSE @[i]],
               !.next_item = @ + 1]

\* UPDATE todo_items SET field = value WHERE id = id, whatever the row's list
OnItem(db, id, field, value) ==
    [db EXCEPT !.lists = [i \in 1..Len(@) |->
        [@[i] EXCEPT !.items = [j \in 1..Len(@) |->
            IF @[j].id = id THEN [@[j] EXCEPT ![field] = value] ELSE @[j]]]]]

TodoItem_update_name(db, id, name) ==
    OnItem(db, id, "name", name)

TodoItem_toggle_done(db, id, new_status) ==
    OnItem(db, id, "is_done", new_status)

TodoItem_delete(db, id) ==
    [db EXCEPT !.lists = [i \in 1..Len(@) |->
        LET p == PosOf(@[i].items, id)
        IN  IF p = 0 THEN @[i] ELSE [@[i] EXCEPT !.items = RemoveAt(@, p)]]]

\* re-sequencing of one entity past `delta` neighbours (delta < 0: towards
\* the front), within its parent's order
MoveBy(seq, id, delta) ==
    LET p == PosOf(seq, id)
        q == IF p + delta < 1 THEN 1
             ELSE IF p + delta > Len(seq) THEN Len(seq) ELSE p + delta
    IN  IF p = 0 THEN seq ELSE InsertAt(RemoveAt(seq, p), q, seq[p])

TodoItem_move_by(db, id, delta) ==
    [db EXCEPT !.lists = [i \in 1..Len(@) |->
        [@[i] EXCEPT !.items = MoveBy(@, id, delta)]]]

TodoList_move_by(db, id, delta) == [db EXCEPT !.lists = MoveBy(@, id, delta)]

\* TodoItem::get_by_list_id: the items of one list in persisted order
TodoItem_get_by_list_id(db, list_id) ==
    LET p == PosOf(db.lists, list_id)
    IN  IF p = 0 THEN <<>> ELSE db.lists[p].items

\* UIList::get_all: every list with its items, each with a fresh ListState
UIList_get_all(db) ==
    [i \in 1..Len(db.lists) |->
        [id |-> db.lists[i].id, name |-> db.lists[i].name,
         item_state |-> None, items |-> db.lists[i].items]]

\* fault: the items are patched nowhere and not re-fetched
UIList_update_items_keeping_items(ul, db) == ul

\* UIList::update_items: re-fetch the items, keep the ListState
UIList_update_items(ul, db) == [ul EXCEPT !.items = TodoItem_get_by_list_id(db, ul.id)]

\* ----------------------------------------------------- the SQLite tables
\* The same storage row by row, as the statements of db/ops.rs see it:
\* todo_lists rows [id, name, created_at], todo_items rows [id, list_id, name,
\* is_done, created_at], the two AUTOINCREMENT counters, and the wall clock
\* Utc::now() reads.  A table is the set of its rows.  updated_at is written
\* and read by no operation; it is left out.
EmptyTables ==
    [todo_lists |-> {}, todo_items |-> {}, next_list |-> 1, next_item |-> 1, clock |-> 0]

\* no struct: Option::None, or a struct that was moved out of
NoRow == [id |-> 0]

\* Utc::now(): the clock has advanced by `tick` since it was last read
Sql_now(t, tick) == t.clock + tick

\* ORDER BY created_at: rows of equal created_at come in rowid order
RECURSIVE OrderByCreatedAt(_)
OrderByCreatedAt(rows) ==
    IF rows = {} THEN <<>>
    ELSE LET first == CHOOSE r \in rows : \A q \in rows :
                          \/ r.created_at < q.created_at
                          \/ (r.created_at = q.created_at /\ r.id <= q.id)
         IN  <<first>> \o OrderByCreatedAt(rows \ {first})

\* a statement returns the tables, the struct it yields (the RETURNING row,
\* or self after the call) and whether it returned Err
SqlOk(t, row) == [t |-> t, row |-> row, failed |-> FALSE]
SqlErr(t, row) == [t |-> t, row |-> row, failed |-> TRUE]

\* TodoList::create: INSERT INTO todo_lists ... RETURNING
Sql_TodoList_create(t, name, tick) ==
    LET row == [id |-> t.next_list, name |-> name, created_at |-> Sql_now(t, tick)]
    IN  SqlOk([t EXCEPT !.todo_lists = @ \cup {row},
                        !.next_list = @ + 1,
                        !.clock = Sql_now(t, tick)], row)

\* TodoList::get_all: SELECT ... FROM todo_lists ORDER BY created_at
Sql_TodoList_get_all(t) == OrderByCreatedAt(t.todo_lists)

\* TodoList::get_by_id: SELECT ... WHERE id, fetch_optional
Sql_TodoList_get_by_id(t, id) ==
    IF \E r \in t.todo_lists : r.id = id
    THEN CHOOSE r \in t.todo_lists : r.id = id
    ELSE NoRow

\* fault: the row is updated and the struct keeps its name
Sql_TodoList_update_name_in_storage_only(t, self, new_name) ==
    SqlOk([t EXCEPT !.todo_lists =
               {IF r.id = self.id THEN [r EXCEPT !.name = new_name] ELSE r : r \in @}],
          self)

\* TodoList::update_name: UPDATE todo_lists SET name WHERE id, then
\* self.name = new_name
Sql_TodoList_update_name(t, self, new_name) ==
    SqlOk([t EXCEPT !.todo_lists =
               {IF r.id = self.id THEN [r EXCEPT !.name = new_name] ELSE r : r \in @}],
          [self EXCEPT !.name = new_name])

\* fault: the rows of todo_items that refer to the list are left behind
Sql_TodoList_delete_without_cascade(t, id) ==
    SqlOk([t EXCEPT !.todo_lists = {r \in @ : r.id # id}], NoRow)

\* TodoList::delete: DELETE FROM todo_lists WHERE id; ON DELETE CASCADE takes
\* the rows of todo_items that refer to it
Sql_TodoList_delete(t, id) ==
    SqlOk([t EXCEPT !.todo_lists = {r \in @ : r.id # id},
                    !.todo_items = {r \in @ : r.list_id # id}], NoRow)

\* fault: the new item is stamped earlier than every item there is
Sql_TodoItem_create_backdated(t, list_id, name, tick) ==
    LET row == [id |-> t.next_item, list_id |-> list_id, name |-> name,
                is_done |-> FALSE, created_at |-> 0 - t.next_item]
    IN  IF list_id \notin {r.id : r \in t.todo_lists} THEN SqlErr(t, NoRow)
        ELSE SqlOk([t EXCEPT !.todo_items = @ \cup {row},
                             !.next_item = @ + 1,
                             !.clock = Sql_now(t, tick)], row)

\* TodoItem::create: INSERT INTO todo_items ... RETURNING; FOREIGN KEY
\* (list_id) REFERENCES todo_lists (id) rejects a list_id that is in no row of
\* todo_lists
Sql_TodoItem_create(t, list_id, name, tick) ==
    LET row == [id |-> t.next_item, list_id |-> list_id, name |-> name,
                is_done |-> FALSE, created_at |-> Sql_now(t, tick)]
    IN  IF list_id \notin {r.id : r \in t.todo_lists} THEN SqlErr(t, NoRow)
        ELSE SqlOk([t EXCEPT !.todo_items = @ \cup {row},
                             !.next_item = @ + 1,
                             !.clock = Sql_now(t, tick)], row)

\* TodoItem::get_by_list_id: SELECT ... WHERE list_id ORDER BY created_at
Sql_TodoItem_get_by_list_id(t, list_id) ==
    OrderByCreatedAt({r \in t.todo_items : r.list_id = list_id})

\* TodoItem::get_by_id: SELECT ... WHERE id, fetch_optional
Sql_TodoItem_get_by_id(t, id) ==
    IF \E r \in t.todo_items : r.id = id
    THEN CHOOSE r \in t.todo_items : r.id = id
    ELSE NoRow

\* TodoItem::update_name: UPDATE todo_items SET name WHERE id, then
\* self.name = new_name
Sql_TodoItem_update_name(t, self, new_name) ==
    SqlOk([t EXCEPT !.todo_items =
               {IF r.id = self.id THEN [r EXCEPT !.name = new_name] ELSE r : r \in @}],
          [self EXCEPT !.name = new_name])

\* TodoItem::delete: DELETE FROM todo_items WHERE id
Sql_TodoItem_delete(t, id) ==
    SqlOk([t EXCEPT !.todo_items = {r \in @ : r.id # id}], NoRow)

\* --------------------------------------------------------- ItemsComponent
\* A UIList is [id, name, item_state, items].  An operation that delegates
\* to storage takes the database and f, the number of the storage call that
\* fails in this event (0: none), and returns the list, the database,
\* whether it panicked and whether it returned Err.
Res(ul, db) == [ul |-> ul, db |-> db, panic |-> FALSE, failed |-> FALSE]
ResErr(ul, db) == [ul |-> ul, db |-> db, panic |-> FALSE, failed |-> TRUE]
ResPanic(ul, db) == [ul |-> ul, db |-> db, panic |-> TRUE, failed |-> FALSE]

select_next_item(ul) == [ul EXCEPT !.item_state = ListState_select_next(@)]
select_previous_item(ul) == [ul EXCEPT !.item_state = ListState_select_previous(@)]
scroll_down_by(ul, amount) == [ul EXCEPT !.item_state = ListState_scroll_down_by(@, amount)]
scroll_up_by(ul, amount) == [ul EXCEPT !.item_state = ListState_scroll_up_by(@, amount)]
remove_item_selection(ul) == [ul EXCEPT !.item_state = None]
\* fault: the jump to the first item lands on the last
select_first_as_last(ul) == [ul EXCEPT !.item_state = ListState_select_last(@)]

select_first(ul) == [ul EXCEPT !.item_state = ListState_select_first(@)]
select_last(ul) == [ul EXCEPT !.item_state = ListState_select_last(@)]

select_first_item(ul) ==
    IF ul.item_state = None THEN select_first(ul) ELSE ul

select_last_item(ul) ==
    IF ul.item_state = None THEN select_last(ul) ELSE ul

\* ui_list.items[j]: an index past the end panics
OutOfBounds(seq, j) == j >= Len(seq)

toggle_item_done(ul, db, f) ==
    LET j == ul.item_state
    IN  IF j = None THEN Res(ul, db)
        ELSE IF OutOfBounds(ul.items, j) THEN ResPanic(ul, db)
        ELSE IF f = 1 THEN ResErr(ul, db)
        ELSE LET new_status == ~ul.items[j + 1].is_done
             IN  Res([ul EXCEPT !.items[j + 1].is_done = new_status],
                     TodoItem_toggle_done(db, ul.items[j + 1].id, new_status))

create_item(ul, name, db, f) ==
    IF f = 1 \/ TodoItem_create_rejected(db, ul.id) THEN ResErr(ul, db)
    ELSE LET db1 == TodoItem_create(db, ul.id, name)
         IN  IF f = 2 THEN ResErr(ul, db1)
             ELSE Res(UIList_update_items(ul, db1), db1)

update_item(ul, name, db, f) ==
    LET j == ul.item_state
    IN  IF j = None THEN Res(ul, db)
        ELSE IF OutOfBounds(ul.items, j) THEN ResPanic(ul, db)
        ELSE IF f = 1 THEN ResErr(ul, db)
        ELSE LET db1 == TodoItem_update_name(db, ul.items[j + 1].id, name)
             IN  IF f = 2 THEN ResErr(ul, db1)
                 ELSE Res(UIList_update_items(ul, db1), db1)

\* fault: the selection is left where it was after the delete
delete_selected_item_unadjusted(ul, db, f) ==
    LET j == ul.item_state
    IN  IF j = None THEN Res(ul, db)
        ELSE IF OutOfBounds(ul.items, j) THEN ResPanic(ul, db)
        ELSE IF f = 1 THEN ResErr(ul, db)
        ELSE LET db1 == TodoItem_delete(db, ul.items[j + 1].id)
             IN  IF f = 2 THEN ResErr(ul, db1) ELSE Res(UIList_update_items(ul, db1), db1)

delete_selected_item(ul, db, f) ==
    LET j == ul.item_state
    IN  IF j = None THEN Res(ul, db)
        ELSE IF OutOfBounds(ul.items, j) THEN ResPanic(ul, db)
        ELSE IF f = 1 THEN ResErr(ul, db)
        ELSE LET db1 == TodoItem_delete(db, ul.items[j + 1].id)
                 ul1 == UIList_update_items(ul, db1)
             IN  IF f = 2 THEN ResErr(ul, db1)
                 ELSE IF Len(ul1.items) = 0
                      THEN Res([ul1 EXCEPT !.item_state = None], db1)
                 ELSE IF j >= Len(ul1.items)
                      THEN Res([ul1 EXCEPT !.item_state = Len(ul1.items) - 1], db1)
                 ELSE Res(ul1, db1)

\* fault: the item is moved but the selection stays on the old index
move_selected_item_up_by_leaving_selection(ul, db, amount, f) ==
    LET j == ul.item_state
        real_amount == IF amount > j THEN j ELSE amount
    IN  IF j = None THEN Res(ul, db)
        ELSE IF OutOfBounds(ul.items, j) THEN ResPanic(ul, db)
        ELSE IF f = 1 THEN ResErr(ul, db)
        ELSE LET db1 == TodoItem_move_by(db, ul.items[j + 1].id, 0 - real_amount)
             IN  Res(UIList_update_items(ul, db1), db1)

move_selected_item_up_by(ul, db, amount, f) ==
    LET j == ul.item_state
        real_amount == IF amount > j THEN j ELSE amount
    IN  IF j = None THEN Res(ul, db)
        ELSE IF OutOfBounds(ul.items, j) THEN ResPanic(ul, db)
        ELSE IF f = 1 THEN ResErr(ul, db)
        ELSE LET db1 == TodoItem_move_by(db, ul.items[j + 1].id, 0 - real_amount)
                 ul1 == UIList_update_items(ul, db1)
             IN  IF f = 2 THEN ResErr(ul, db1)
                 ELSE IF j > 0
                      THEN Res([ul1 EXCEPT !.item_state = j - real_amount], db1)
                 ELSE Res(ul1, db1)

\* fault: the requested amount is used without clamping it to the room left
move_selected_item_down_by_unclamped(ul, db, amount, f) ==
    LET j == ul.item_state
    IN  IF j = None THEN Res(ul, db)
        ELSE IF OutOfBounds(ul.items, j) THEN ResPanic(ul, db)
        ELSE IF f = 1 THEN ResErr(ul, db)
        ELSE LET db1 == TodoItem_move_by(db, ul.items[j + 1].id, amount)
                 ul1 == UIList_update_items(ul, db1)
             IN  IF f = 2 THEN ResErr(ul, db1)
                 ELSE IF j + amount < Len(ul1.items)
                      THEN Res([ul1 EXCEPT !.item_state = j + amount], db1)
                 ELSE Res(ul1, db1)

\* items.len() - j - 1 is usize arithmetic: with j >= len it overflows (a
\* panic in a debug build, a wrap in a release build after which items[j]
\* panics), so every build panics there.
move_selected_item_down_by(ul, db, amount, f) ==
    LET j == ul.item_state
        room == Len(ul.items) - j - 1
        real_amount == IF amount > room THEN room ELSE amount
    IN  IF j = None THEN Res(ul, db)
        ELSE IF room < 0 \/ OutOfBounds(ul.items, j) THEN ResPanic(ul, db)
        ELSE IF f = 1 THEN ResErr(ul, db)
        ELSE LET db1 == TodoItem_move_by(db, ul.items[j + 1].id, real_amount)
                 ul1 == UIList_update_items(ul, db1)
             IN  IF f = 2 THEN ResErr(ul, db1)
                 ELSE IF j + real_amount < Len(ul1.items)
                      THEN Res([ul1 EXCEPT !.item_state = j + real_amount], db1)
                 ELSE Res(ul1, db1)

\* --------------------------------------------------------- ListsComponent
\* A ListsComponent is [lists, list_state]; its operations return the
\* component, the database, and the panic and Err flags.
LRes(lc, db) == [lc |-> lc, db |-> db, panic |-> FALSE, failed |-> FALSE]
LResErr(lc, db) == [lc |-> lc, db |-> db, panic |-> FALSE, failed |-> TRUE]
LResPanic(lc, db) == [lc |-> lc, db |-> db, panic |-> TRUE, failed |-> FALSE]

ListsComponent_new == [lists |-> <<>>, list_state |-> None]

load_lists(lc, db) == [lc EXCEPT !.lists = UIList_get_all(db)]

select_next(lc) == [lc EXCEPT !.list_state = ListState_select_next(@)]
select_previous(lc) == [lc EXCEPT !.list_state = ListState_select_previous(@)]

selected(lc) == lc.list_state

\* get_selected_list / get_selected_list_mut: Vec::get, None past the end
has_selected_list(lc) == lc.list_state # None /\ lc.list_state < Len(lc.lists)
get_selected_list(lc) == lc.lists[lc.list_state + 1]

create_list_without_reload(lc, name, db, f) ==
    IF f = 1 THEN LResErr(lc, db) ELSE LRes(lc, TodoList_create(db, name))

create_list(lc, name, db, f) ==
    IF f = 1 THEN LResErr(lc, db)
    ELSE LET db1 == TodoList_create(db, name)
         IN  IF f = 2 THEN LResErr(lc, db1)
             ELSE LRes(load_lists(lc, db1), db1)

delete_selected_list(lc, db, f) ==
    LET i == lc.list_state
    IN  IF i = None THEN LRes(lc, db)
        ELSE IF OutOfBounds(lc.lists, i) THEN LResPanic(lc, db)
        ELSE IF f = 1 THEN LResErr(lc, db)
        ELSE LET db1 == TodoList_delete(db, lc.lists[i + 1].id)
                 lc1 == load_lists(lc, db1)
             IN  IF f = 2 THEN LResErr(lc, db1)
                 ELSE IF Len(lc1.lists) = 0
                      THEN LRes([lc1 EXCEPT !.list_state = None], db1)
                 ELSE IF i >= Len(lc1.lists)
                      THEN LRes([lc1 EXCEPT !.list_state = Len(lc1.lists) - 1], db1)
                 ELSE LRes(lc1, db1)

\* update_list: rename the selected list in storage, then reload
update_list(lc, name, db, f) ==
    LET i == lc.list_state
    IN  IF i = None THEN LRes(lc, db)
        ELSE IF OutOfBounds(lc.lists, i) THEN LResPanic(lc, db)
        ELSE IF f = 1 THEN LResErr(lc, db)
        ELSE LET db1 == TodoList_update_name(db, lc.lists[i + 1].id, name)
             IN  IF f = 2 THEN LResErr(lc, db1)
                 ELSE LRes(load_lists(lc, db1), db1)

\* move_selected_list_up / _down: one position, clamped at the boundary,
\* persisted, reloaded, the selection following the list
move_selected_list_up(lc, db, f) ==
    LET i == lc.list_state
        real_amount == IF 1 > i THEN i ELSE 1
    IN  IF i = None THEN LRes(lc, db)
        ELSE IF OutOfBounds(lc.lists, i) THEN LResPanic(lc, db)
        ELSE IF f = 1 THEN LResErr(lc, db)
        ELSE LET db1 == TodoList_move_by(db, lc.lists[i + 1].id, 0 - real_amount)
                 lc1 == load_lists(lc, db1)
             IN  IF f = 2 THEN LResErr(lc, db1)
                 ELSE LRes([lc1 EXCEPT !.list_state = i - real_amount], db1)

move_selected_list_down(lc, db, f) ==
    LET i == lc.list_state
        room == Len(lc.lists) - i - 1
        real_amount == IF 1 > room THEN room ELSE 1
    IN  IF i = None THEN LRes(lc, db)
        ELSE IF OutOfBounds(lc.lists, i) THEN LResPanic(lc, db)
        ELSE IF f = 1 THEN LResErr(lc, db)
        ELSE LET db1 == TodoList_move_by(db, lc.lists[i + 1].id, real_amount)
                 lc1 == load_lists(lc, db1)
             IN  IF f = 2 THEN LResErr(lc, db1)
                 ELSE LRes([lc1 EXCEPT !.list_state = i + real_amount], db1)

\* ------------------------------------------------------------- key events
\* A KeyEvent is [code, shift, ctrl].  KeyCode::Char(c) is the code c itself;
\* the other key codes are the names below.
SpecialCodes == {"Tab", "BackTab", "Esc", "Enter", "Up", "Down", "Left", "Right",
                 "Backspace", "Delete"}

IsChar(code) == code \notin SpecialCodes

Digits == {"0", "1", "2", "3", "4", "5", "6", "7", "8", "9"}

is_ascii_digit(code) == code \in Digits

to_digit(code) ==
    CASE code = "0" -> 0 [] code = "1" -> 1 [] code = "2" -> 2 [] code = "3" -> 3
      [] code = "4" -> 4 [] code = "5" -> 5 [] code = "6" -> 6 [] code = "7" -> 7
      [] code = "8" -> 8 [] code = "9" -> 9

Key(code) == [code |-> code, shift |-> FALSE, ctrl |-> FALSE]
ShiftKey(code) == [code |-> code, shift |-> TRUE, ctrl |-> FALSE]
CtrlKey(code) == [code |-> code, shift |-> FALSE, ctrl |-> TRUE]

\* EventHandler::format_keycode_for_buffer: (label, visible)
format_keycode_for_buffer(k) ==
    IF k.ctrl /\ k.code = "h" THEN <<"Ctrl + h", TRUE>>
    ELSE IF k.code \in {"Backspace", "Delete"} THEN <<"", FALSE>>
    ELSE IF is_ascii_digit(k.code) THEN <<k.code, FALSE>>
    ELSE <<k.code, TRUE>>

\* -------------------------------------------------------------------- App
MainScreens == {"ListSelection", "ItemSelection", "DBSelection"}

Screens == MainScreens \cup
    {"AddList", "ModifyList", "AddItem", "ModifyItem", "AddDB", "ModifyDB",
     "Help", "LeaderHelp", "DeleteListConfirmation", "DeleteDatabaseConfirmation"}

\* Option<String>: None is <<>>, Some(s) is <<s>>
NoName == <<>>
SomeName(s) == <<s>>

\* the world a handler works on: the App, the databases, and how it ended
W(a, st) == [app |-> a, store |-> st, panic |-> FALSE, failed |-> FALSE]
WErr(a, st) == [app |-> a, store |-> st, panic |-> FALSE, failed |-> TRUE]
WPanic(a, st) == [app |-> a, store |-> st, panic |-> TRUE, failed |-> FALSE]

\* the outcome of a component operation on the open database, put back
WithLists(a, st, r) ==
    [app |-> [a EXCEPT !.lists_component = r.lc],
     store |-> [st EXCEPT ![a.pool] = r.db],
     panic |-> r.panic, failed |-> r.failed]

\* the outcome of an item operation on the selected list, put back
WithSelectedList(a, st, r) ==
    [app |-> [a EXCEPT !.lists_component.lists[a.lists_component.list_state + 1] = r.ul],
     store |-> [st EXCEPT ![a.pool] = r.db],
     panic |-> r.panic, failed |-> r.failed]

OnSelectedList(a, ul) ==
    [a EXCEPT !.lists_component.lists[a.lists_component.list_state + 1] = ul]

\* App::add_key_to_buffer
add_key_to_buffer(a, label, visible) ==
    LET buf == a.keys_buffer
        kept == IF Len(buf) > 0
                   /\ (buf[Len(buf)][2] \/ label \notin {"k", "j", "K", "J"})
                THEN <<>> ELSE buf
    IN  [a EXCEPT !.keys_buffer = Append(kept, <<label, visible>>)]

reset_key_buffer(a) == [a EXCEPT !.keys_buffer = <<>>]

reset_number_modifier(a) == [a EXCEPT !.number_modifier = 0]

\* App::add_number_modifier, on a u16
U16 == 65536

add_number_modifier(a, modifier) ==
    LET len == Len(a.lists_component.lists) % U16
        clamped == IF a.number_modifier > len THEN len ELSE a.number_modifier
    IN  [a EXCEPT !.number_modifier = (clamped * 10 + modifier) % U16]

\* go_back: return to the remembered top-level screen
go_back(a) == [a EXCEPT !.current_screen = a.last_active_screen]

enter_add_list_screen(a) ==
    [a EXCEPT !.input_state = InputState_default, !.current_screen = "AddList"]

enter_modify_list_screen(a, selected_list) ==
    [a EXCEPT !.input_state = [current_input |-> selected_list.name,
                               cursor_pos |-> 0, is_modifying |-> TRUE],
              !.current_screen = "ModifyList"]

enter_add_item_screen(a) ==
    IF selected(a.lists_component) # None
    THEN [a EXCEPT !.input_state = InputState_default, !.current_screen = "AddItem"]
    ELSE a

\* ui_list.items[j] panics past the end
enter_modify_item_screen_panics(a, ui_list) ==
    /\ selected(a.lists_component) # None
    /\ ui_list.item_state # None
    /\ OutOfBounds(ui_list.items, ui_list.item_state)

enter_modify_item_screen(a, ui_list) ==
    IF selected(a.lists_component) # None /\ ui_list.item_state # None
    THEN [a EXCEPT !.input_state =
                       [current_input |-> ui_list.items[ui_list.item_state + 1].name,
                        cursor_pos |-> 0, is_modifying |-> TRUE],
                   !.current_screen = "ModifyItem"]
    ELSE a

\* fault: the screen is left with the input as it was
exit_add_or_modify_list_without_saving_keeping_input(a) ==
    [a EXCEPT !.current_screen = "ListSelection"]

exit_add_or_modify_list_without_saving(a) ==
    [a EXCEPT !.current_screen = "ListSelection", !.input_state = clear(@).st]

\* fault: the input is cleared and the screen is kept
exit_add_item_without_saving_keeping_screen(a) ==
    [a EXCEPT !.input_state = clear(@).st]

exit_add_item_without_saving(a) ==
    [a EXCEPT !.current_screen = "ItemSelection", !.input_state = clear(@).st]

\* position (0-based) of the first database with this name, else 0
position_or_0(dbs, name) ==
    IF \E i \in 1..Len(dbs) : dbs[i].name = name
    THEN (CHOOSE i \in 1..Len(dbs) :
              dbs[i].name = name /\ \A j \in 1..(i - 1) : dbs[j].name # name) - 1
    ELSE 0

enter_change_db_screen(a) ==
    [a EXCEPT !.selected_db_index = position_or_0(a.config.dbs, a.current_db_config.name),
              !.current_screen = "DBSelection"]

exit_change_db_without_saving(a) == [a EXCEPT !.current_screen = "DBSelection"]

enter_add_db_screen(a) == [a EXCEPT !.current_screen = "AddDB"]

select_previous_db(a) ==
    IF Len(a.config.dbs) = 0 THEN a
    ELSE [a EXCEPT !.selected_db_index =
              IF @ = 0 THEN Len(a.config.dbs) - 1 ELSE @ - 1]

select_next_db(a) ==
    IF Len(a.config.dbs) = 0 THEN a
    ELSE [a EXCEPT !.selected_db_index = (@ + 1) % Len(a.config.dbs)]

\* App::switch_to_selected_db: storage call 1 opens the database, call 2
\* loads its lists
switch_to_selected_db(a, st, f) ==
    IF a.selected_db_index >= Len(a.config.dbs) THEN W(a, st)
    ELSE IF f = 1 THEN WErr(a, st)
    ELSE LET selected_db == a.config.dbs[a.selected_db_index + 1]
             a1 == [a EXCEPT !.current_db_config = selected_db,
                             !.pool = selected_db.connection_str,
                             !.lists_component = ListsComponent_new]
             lc == load_lists(a1.lists_component, st[a1.pool])
         IN  IF f = 2 THEN WErr(a1, st)
             ELSE W([a1 EXCEPT !.lists_component =
                         [lc EXCEPT !.list_state = IF Len(lc.lists) # 0 THEN 0 ELSE None],
                               !.current_screen = "ListSelection"], st)

\* App::set_selected_db_as_default: storage call 3 of the event writes the
\* config file
set_selected_db_as_default(a, st, f) ==
    IF a.selected_db_index >= Len(a.config.dbs) THEN W(a, st)
    ELSE LET a1 == [a EXCEPT !.config.default = a.config.dbs[a.selected_db_index + 1].name]
         IN  IF f = 3 THEN WErr(a1, st) ELSE W(a1, st)

enter_modify_db_screen(a) ==
    IF a.selected_db_index < Len(a.config.dbs)
    THEN [a EXCEPT !.input_state =
                       [current_input |-> a.config.dbs[a.selected_db_index + 1].name,
                        cursor_pos |-> 0, is_modifying |-> TRUE],
                   !.current_screen = "ModifyDB"]
    ELSE a

exit_add_db_without_saving(a) ==
    [a EXCEPT !.current_screen = "DBSelection", !.input_state = clear(@).st]

exit_modify_db_without_saving(a) ==
    [a EXCEPT !.current_screen = "DBSelection", !.input_state = clear(@).st]

\* what init_db leaves behind: the file <name>.db, created with empty tables
\* when it was not there
init_db(st, connection_str) ==
    [c \in DOMAIN st \cup {connection_str} |->
        IF c \in DOMAIN st THEN st[c]
        ELSE [lists |-> <<>>, next_list |-> 1, next_item |-> 1]]

\* App::create_new_database: call 1 initializes the database file, call 2
\* writes the config file (after the in-memory config has the new entry)
create_new_database(a, st, db_name, set_as_default, f) ==
    IF f = 1 THEN WErr(a, st)
    ELSE LET new_db_config == [name |-> db_name, connection_str |-> db_name]
             st1 == init_db(st, new_db_config.connection_str)
             a1 == [a EXCEPT !.config.dbs = Append(@, new_db_config),
                             !.config.default = IF set_as_default THEN db_name ELSE @]
         IN  IF f = 2 THEN WErr(a1, st1)
             ELSE W([a1 EXCEPT !.selected_db_index = Len(a1.config.dbs) - 1], st1)

\* App::delete_selected_db: the entry leaves the in-memory config, then
\* call 1 writes the config file
delete_selected_db(a, st, f) ==
    IF a.selected_db_index < Len(a.config.dbs)
    THEN LET removed_db == a.config.dbs[a.selected_db_index + 1]
             dbs == RemoveAt(a.config.dbs, a.selected_db_index + 1)
             a1 == [a EXCEPT !.config.dbs = dbs,
                             !.config.default =
                                 IF @ = removed_db.name
                                 THEN IF Len(dbs) # 0 THEN dbs[1].name ELSE <<>>
                                 ELSE @]
         IN  IF f = 1 THEN WErr(a1, st) ELSE W(a1, st)
    ELSE W(a, st)

\* App::modify_selected_db(Some(new_name), None): the entry is renamed in
\* memory, then call 1 writes the config file
modify_selected_db(a, st, new_name, f) ==
    IF a.selected_db_index < Len(a.config.dbs)
    THEN LET selected_db == a.config.dbs[a.selected_db_index + 1]
             a1 == [a EXCEPT !.config.default = IF @ = selected_db.name THEN new_name ELSE @,
                             !.config.dbs[a.selected_db_index + 1].name = new_name]
         IN  IF f = 1 THEN WErr(a1, st) ELSE W(a1, st)
    ELSE W(a, st)

\* ----------------------------------------------------------- EventHandler
Consumed(a) == [app |-> a, consumed |-> TRUE]
NotConsumed(a) == [app |-> a, consumed |-> FALSE]

TabTarget(screen) ==
    CASE screen = "ListSelection" -> "ItemSelection"
      [] screen = "ItemSelection" -> "DBSelection"
      [] screen = "DBSelection" -> "ListSelection"
      [] OTHER -> "ListSelection"

\* fault: Shift+Tab walks the ring in the direction of Tab
BackTabTarget_forward(screen) == TabTarget(screen)

BackTabTarget(screen) ==
    CASE screen = "ListSelection" -> "DBSelection"
      [] screen = "ItemSelection" -> "ListSelection"
      [] screen = "DBSelection" -> "ItemSelection"
      [] OTHER -> "ListSelection"

\* fault: the screen a key event is handled on is not remembered
GlobalTab_not_remembering(a, k) ==
    IF a.current_screen \in MainScreens
    THEN LET a1 == IF k.code = "Tab"
                   THEN [a EXCEPT !.current_screen = TabTarget(@)] ELSE a
         IN  IF k.code = "BackTab"
             THEN [a1 EXCEPT !.current_screen = BackTabTarget(@)] ELSE a1
    ELSE a

\* EventHandler::matches_global_keys, lines 45-64: Tab / BackTab on a main
\* screen, and the remembered top-level screen
GlobalTab(a, k) ==
    IF a.current_screen \in MainScreens
    THEN LET a1 == IF k.code = "Tab"
                   THEN [a EXCEPT !.current_screen = TabTarget(@)] ELSE a
             a2 == IF k.code = "BackTab"
                   THEN [a1 EXCEPT !.current_screen = BackTabTarget(@)] ELSE a1
         IN  [a2 EXCEPT !.last_active_screen = a2.current_screen]
    ELSE a

\* fault: the leader key opens Leader-Help whatever the number modifier
GlobalTable_leader_with_count(a, k) ==
    IF k.code = "q" THEN Consumed([a EXCEPT !.exit = TRUE])
    ELSE IF k.code = "h" /\ k.ctrl THEN Consumed([a EXCEPT !.current_screen = "Help"])
    ELSE IF k.code = "Esc"
         THEN IF a.current_screen \notin MainScreens THEN NotConsumed(a)
              ELSE Consumed(reset_number_modifier(a))
    ELSE IF is_ascii_digit(k.code) THEN Consumed(add_number_modifier(a, to_digit(k.code)))
    ELSE IF k.code = " "
         THEN Consumed([a EXCEPT !.leader_awaiting = TRUE,
                                 !.current_screen = "LeaderHelp"])
    ELSE NotConsumed(a)

\* fault: Ctrl+h opens Help but is not reported as consumed
GlobalTable_help_not_consumed(a, k) ==
    IF k.code = "q" THEN Consumed([a EXCEPT !.exit = TRUE])
    ELSE IF k.code = "h" /\ k.ctrl THEN NotConsumed([a EXCEPT !.current_screen = "Help"])
    ELSE IF k.code = "Esc"
         THEN IF a.current_screen \notin MainScreens THEN NotConsumed(a)
              ELSE Consumed(reset_number_modifier(a))
    ELSE IF is_ascii_digit(k.code) THEN Consumed(add_number_modifier(a, to_digit(k.code)))
    ELSE IF k.code = " "
         THEN IF a.number_modifier = 0
              THEN Consumed([a EXCEPT !.leader_awaiting = TRUE,
                                      !.current_screen = "LeaderHelp"])
              ELSE Consumed(a)
    ELSE NotConsumed(a)

\* lines 83-111: the global key table
GlobalTable(a, k) ==
    IF k.code = "q" THEN Consumed([a EXCEPT !.exit = TRUE])
    ELSE IF k.code = "h" /\ k.ctrl THEN Consumed([a EXCEPT !.current_screen = "Help"])
    ELSE IF k.code = "Esc"
         THEN IF a.current_screen \notin MainScreens THEN NotConsumed(a)
              ELSE Consumed(reset_number_modifier(a))
    ELSE IF is_ascii_digit(k.code) THEN Consumed(add_number_modifier(a, to_digit(k.code)))
    ELSE IF k.code = " "
         THEN IF a.number_modifier = 0
              THEN Consumed([a EXCEPT !.leader_awaiting = TRUE,
                                      !.current_screen = "LeaderHelp"])
              ELSE Consumed(a)
    ELSE NotConsumed(a)

\* fault: while a second key is awaited, a key other than g is swallowed
matches_global_keys_dropping_the_next_key(a, k) ==
    LET a1 == GlobalTab(a, k)
        a2 == [a1 EXCEPT !.awaiting_second_g = FALSE]
        fmt == format_keycode_for_buffer(k)
        a3 == add_key_to_buffer(a2, fmt[1], ~fmt[2])
    IN  IF a1.awaiting_second_g /\ k.code = "g"
        THEN NotConsumed([a2 EXCEPT !.keys_buffer = Append(@, <<"g", FALSE>>)])
        ELSE IF a1.awaiting_second_g THEN Consumed(a3)
        ELSE IF k.code = "g" /\ a3.current_screen = "ItemSelection"
        THEN NotConsumed([a3 EXCEPT !.awaiting_second_g = TRUE])
        ELSE GlobalTable(a3, k)

matches_global_keys(a, k) ==
    LET a1 == GlobalTab(a, k)
        a2 == [a1 EXCEPT !.awaiting_second_g = FALSE]
        fmt == format_keycode_for_buffer(k)
        a3 == add_key_to_buffer(a2, fmt[1], ~fmt[2])
    IN  IF a1.awaiting_second_g /\ k.code = "g"
        THEN NotConsumed([a2 EXCEPT !.keys_buffer = Append(@, <<"g", FALSE>>)])
        ELSE IF k.code = "g" /\ a3.current_screen = "ItemSelection"
        THEN NotConsumed([a3 EXCEPT !.awaiting_second_g = TRUE])
        ELSE GlobalTable(a3, k)

\* fault: a key that is no leader command leaves leader_awaiting cleared
handle_leader_help_screen_key_not_rearming(a, st, k) ==
    LET a1 == [a EXCEPT !.leader_awaiting = FALSE]
    IN  IF k.code = "q" THEN W([a1 EXCEPT !.exit = TRUE], st)
        ELSE IF k.code = "1" THEN W([a1 EXCEPT !.current_screen = "ListSelection"], st)
        ELSE IF k.code = "2" THEN W([a1 EXCEPT !.current_screen = "ItemSelection"], st)
        ELSE IF k.code = "3" THEN W([a1 EXCEPT !.current_screen = "DBSelection"], st)
        ELSE IF k.code = "Esc" THEN W(reset_key_buffer(go_back(a1)), st)
        ELSE W(a1, st)

handle_leader_help_screen_key(a, st, k) ==
    LET a1 == [a EXCEPT !.leader_awaiting = FALSE]
    IN  IF k.code = "q" THEN W([a1 EXCEPT !.exit = TRUE], st)
        ELSE IF k.code = "1" THEN W([a1 EXCEPT !.current_screen = "ListSelection"], st)
        ELSE IF k.code = "2" THEN W([a1 EXCEPT !.current_screen = "ItemSelection"], st)
        ELSE IF k.code = "3" THEN W([a1 EXCEPT !.current_screen = "DBSelection"], st)
        ELSE IF k.code = "Esc" THEN W(reset_key_buffer(go_back(a1)), st)
        ELSE W([a1 EXCEPT !.leader_awaiting = TRUE], st)

handle_help_screen_key(a, st, k) ==
    LET g == matches_global_keys(a, k)
    IN  IF g.consumed THEN W(g.app, st)
        ELSE IF k.code \in {"Esc", "q"} THEN W(go_back(g.app), st)
        ELSE W(g.app, st)

handle_list_selection_screen_key(a, st, k, f) ==
    LET g == matches_global_keys(a, k)
        b == g.app
        lc == b.lists_component
        db == st[b.pool]
    IN  IF g.consumed THEN W(b, st)
        ELSE IF k.shift
        THEN IF k.code \in {"Up", "K"}
             THEN WithLists(b, st, move_selected_list_up(lc, db, f))
             ELSE IF k.code \in {"Down", "J"}
             THEN WithLists(b, st, move_selected_list_down(lc, db, f))
             ELSE W(b, st)
        ELSE IF k.code \in {"Down", "j"}
        THEN W([b EXCEPT !.lists_component = select_next(lc)], st)
        ELSE IF k.code \in {"Up", "k"}
        THEN W([b EXCEPT !.lists_component = select_previous(lc)], st)
        ELSE IF k.code \in {"Right", "l"}
        THEN LET b1 == [b EXCEPT !.current_screen = "ItemSelection"]
             IN  IF has_selected_list(lc)
                 THEN W(OnSelectedList(b1, select_first_item(get_selected_list(lc))), st)
                 ELSE W(b1, st)
        ELSE IF k.code = "a" THEN W(enter_add_list_screen(b), st)
        ELSE IF k.code = "m"
        THEN IF has_selected_list(lc)
             THEN W(enter_modify_list_screen(b, get_selected_list(lc)), st)
             ELSE W(b, st)
        ELSE IF k.code = "d"
        THEN IF has_selected_list(lc)
             THEN W([b EXCEPT !.pending_delete_list_name =
                                  SomeName(get_selected_list(lc).name),
                              !.current_screen = "DeleteListConfirmation"], st)
             ELSE W(b, st)
        ELSE W(b, st)

\* fault: a negative answer goes back and leaves the pending name set
handle_delete_list_confirmation_key_keeping_name(a, st, k, f) ==
    IF k.code \in {"y", "Y"}
    THEN LET r == WithLists(a, st, delete_selected_list(a.lists_component, st[a.pool], f))
         IN  IF r.panic THEN r
             ELSE [r EXCEPT !.app = go_back([r.app EXCEPT !.pending_delete_list_name = NoName])]
    ELSE IF k.code \in {"n", "N", "Esc"}
    THEN W(go_back(a), st)
    ELSE W(a, st)

handle_delete_list_confirmation_key(a, st, k, f) ==
    IF k.code \in {"y", "Y"}
    THEN LET r == WithLists(a, st, delete_selected_list(a.lists_component, st[a.pool], f))
         IN  IF r.panic THEN r
             ELSE [r EXCEPT !.app = go_back([r.app EXCEPT !.pending_delete_list_name = NoName])]
    ELSE IF k.code \in {"n", "N", "Esc"}
    THEN W(go_back([a EXCEPT !.pending_delete_list_name = NoName]), st)
    ELSE W(a, st)

\* `G`: items.len() - index is usize arithmetic.  When it overflows a debug
\* build panics and a release build wraps; `amount as u16` then truncates.
handle_item_selection_screen_key(a, st, k, f, overflow_checks) ==
    LET g == matches_global_keys(a, k)
        b == g.app
        lc == b.lists_component
        db == st[b.pool]
        nm == b.number_modifier
        amount == IF nm = 0 THEN 1 ELSE nm
        ul == get_selected_list(lc)
    IN  IF g.consumed THEN W(b, st)
        ELSE IF k.shift
        THEN IF k.code \in {"Up", "K"}
             THEN IF has_selected_list(lc)
                  THEN LET r == WithSelectedList(b, st,
                                    move_selected_item_up_by(ul, db, amount, f))
                       IN  IF r.panic THEN r
                           ELSE [r EXCEPT !.app = reset_number_modifier(@)]
                  ELSE W(reset_number_modifier(b), st)
             ELSE IF k.code \in {"Down", "J"}
             THEN IF has_selected_list(lc)
                  THEN LET r == WithSelectedList(b, st,
                                    move_selected_item_down_by(ul, db, amount, f))
                       IN  IF r.panic THEN r
                           ELSE [r EXCEPT !.app = reset_number_modifier(@)]
                  ELSE W(reset_number_modifier(b), st)
             ELSE IF k.code = "G"
             THEN IF has_selected_list(lc) /\ ul.item_state # None
                  THEN LET d == Len(ul.items) - ul.item_state
                       IN  IF d < 0 /\ overflow_checks THEN WPanic(b, st)
                           ELSE W(OnSelectedList(b, scroll_down_by(ul, d % U16)), st)
                  ELSE W(b, st)
             ELSE W(b, st)
        ELSE IF k.code = "g"
        THEN IF b.awaiting_second_g THEN W(b, st)
             ELSE IF has_selected_list(lc)
             THEN W(OnSelectedList(b, select_first(ul)), st)
             ELSE W(b, st)
        ELSE IF k.code \in {"Down", "j"}
        THEN IF has_selected_list(lc)
             THEN IF nm = 0
                  THEN W(OnSelectedList(b, select_next_item(ul)), st)
                  ELSE W(reset_number_modifier(OnSelectedList(b, scroll_down_by(ul, nm))), st)
             ELSE W(b, st)
        ELSE IF k.code \in {"Up", "k"}
        THEN IF has_selected_list(lc)
             THEN IF nm = 0
                  THEN W(OnSelectedList(b, select_previous_item(ul)), st)
                  ELSE W(reset_number_modifier(OnSelectedList(b, scroll_up_by(ul, nm))), st)
             ELSE W(b, st)
        ELSE IF k.code \in {"Left", "h"}
        THEN LET b1 == [b EXCEPT !.current_screen = "ListSelection"]
             IN  IF has_selected_list(lc)
                 THEN W(OnSelectedList(b1, remove_item_selection(ul)), st)
                 ELSE W(b1, st)
        ELSE IF k.code = "a" THEN W(enter_add_item_screen(b), st)
        ELSE IF k.code = "m"
        THEN IF has_selected_list(lc)
             THEN IF enter_modify_item_screen_panics(b, ul) THEN WPanic(b, st)
                  ELSE W(enter_modify_item_screen(b, ul), st)
             ELSE W(b, st)
        ELSE IF k.code = "d"
        THEN IF has_selected_list(lc)
             THEN WithSelectedList(b, st, delete_selected_item(ul, db, f))
             ELSE W(b, st)
        ELSE IF k.code = "Enter"
        THEN IF has_selected_list(lc)
             THEN WithSelectedList(b, st, toggle_item_done(ul, db, f))
             ELSE W(b, st)
        ELSE IF k.code = "Esc" THEN W([b EXCEPT !.current_screen = "ItemSelection"], st)
        ELSE W(b, st)

EditorKey_after_global_keys(a, st, k) ==
    LET g == matches_global_keys(a, k)
    IN  W(g.app, st)

\* the keys every modal text screen routes to the cursor editor
EditorKey(a, st, k) ==
    LET r == CASE k.code = "Backspace" -> remove_char_before_cursor(a.input_state)
               [] k.code = "Delete" -> delete_char_after_cursor(a.input_state)
               [] k.code = "Left" -> move_cursor_left(a.input_state)
               [] k.code = "Right" -> move_cursor_right(a.input_state)
               [] IsChar(k.code) -> add_char(a.input_state, k.code)
               [] OTHER -> EdOk(a.input_state)
    IN  [app |-> [a EXCEPT !.input_state = r.st], store |-> st,
         panic |-> r.panic, failed |-> FALSE]

handle_add_or_modify_list_screen_key(a, st, k, f) ==
    LET list_name == a.input_state.current_input
        done(r) == IF r.failed \/ r.panic THEN r
                   ELSE [r EXCEPT !.app = [go_back(@) EXCEPT !.input_state = clear(@).st]]
    IN  IF k.code = "Esc" THEN W(exit_add_or_modify_list_without_saving(a), st)
        ELSE IF k.code = "Enter"
        THEN IF ~IsBlank(list_name)
             THEN IF a.input_state.is_modifying
                  THEN done(WithLists(a, st,
                           update_list(a.lists_component, list_name, st[a.pool], f)))
                  ELSE done(WithLists(a, st,
                           create_list(a.lists_component, list_name, st[a.pool], f)))
             ELSE W(a, st)
        ELSE EditorKey(a, st, k)

handle_add_or_modify_item_screen_key(a, st, k, f) ==
    LET item_name == a.input_state.current_input
        lc == a.lists_component
        ul == get_selected_list(lc)
        done(r) == IF r.failed \/ r.panic THEN r
                   ELSE [r EXCEPT !.app = [@ EXCEPT !.current_screen = "ItemSelection",
                                                    !.input_state = clear(@).st]]
    IN  IF k.code = "Esc" THEN W(exit_add_item_without_saving(a), st)
        ELSE IF k.code = "Enter"
        THEN IF ~IsBlank(item_name) /\ has_selected_list(lc)
             THEN IF a.input_state.is_modifying
                  THEN done(WithSelectedList(a, st, update_item(ul, item_name, st[a.pool], f)))
                  ELSE done(WithSelectedList(a, st, create_item(ul, item_name, st[a.pool], f)))
             ELSE W(a, st)
        ELSE EditorKey(a, st, k)

\* `d`: db_name.unwrap() panics when no database sits at selected_db_index
handle_change_db_screen_key(a, st, k, f) ==
    LET g == matches_global_keys(a, k)
        b == g.app
    IN  IF g.consumed THEN W(b, st)
        ELSE IF k.code = "Esc" THEN W(exit_change_db_without_saving(b), st)
        ELSE IF k.code \in {"Up", "k"} THEN W(select_previous_db(b), st)
        ELSE IF k.code \in {"Down", "j"} THEN W(select_next_db(b), st)
        ELSE IF k.code = "Enter"
        THEN LET r == switch_to_selected_db(b, st, f)
             IN  [r EXCEPT !.app = go_back(@)]
        ELSE IF k.code = "a" THEN W(enter_add_db_screen(b), st)
        ELSE IF k.code = "s"
        THEN LET r1 == switch_to_selected_db(b, st, f)
                 r2 == set_selected_db_as_default(r1.app, r1.store, f)
             IN  [r2 EXCEPT !.failed = r1.failed \/ r2.failed]
        ELSE IF k.code = "m" THEN W(enter_modify_db_screen(b), st)
        ELSE IF k.code = "d"
        THEN IF b.selected_db_index >= Len(b.config.dbs) THEN WPanic(b, st)
             ELSE W([b EXCEPT !.pending_delete_db_name =
                                  SomeName(b.config.dbs[b.selected_db_index + 1].name),
                              !.current_screen = "DeleteDatabaseConfirmation"], st)
        ELSE W(b, st)

handle_delete_database_confirmation_key_keeping_name(a, st, k, f) ==
    IF k.code \in {"n", "N", "Esc"}
    THEN W([a EXCEPT !.current_screen = "DBSelection"], st)
    ELSE W(a, st)

handle_delete_database_confirmation_key(a, st, k, f) ==
    IF k.code \in {"y", "Y"}
    THEN LET r == delete_selected_db(a, st, f)
         IN  [r EXCEPT !.app =
                 [@ EXCEPT !.pending_delete_db_name = NoName,
                           !.current_screen = "DBSelection",
                           !.selected_db_index =
                               position_or_0(r.app.config.dbs, r.app.current_db_config.name)]]
    ELSE IF k.code \in {"n", "N", "Esc"}
    THEN W([a EXCEPT !.pending_delete_db_name = NoName,
                     !.current_screen = "DBSelection"], st)
    ELSE W(a, st)

handle_add_db_screen_key(a, st, k, f) ==
    LET db_name == a.input_state.current_input
    IN  IF k.code = "Esc" THEN W(exit_add_db_without_saving(a), st)
        ELSE IF k.code = "Enter"
        THEN IF ~IsBlank(db_name)
             THEN LET r == create_new_database(a, st, db_name, FALSE, f)
                  IN  IF r.failed THEN r
                      ELSE [r EXCEPT !.app = [@ EXCEPT !.current_screen = "DBSelection",
                                                       !.input_state = clear(@).st]]
             ELSE W(a, st)
        ELSE EditorKey(a, st, k)

handle_modify_db_screen_key(a, st, k, f) ==
    LET new_name == a.input_state.current_input
    IN  IF k.code = "Enter"
        THEN LET r == IF ~IsBlank(new_name) THEN modify_selected_db(a, st, new_name, f)
                      ELSE W(a, st)
             IN  [r EXCEPT !.app = exit_modify_db_without_saving(@)]
        ELSE IF k.code = "Esc" THEN W(exit_modify_db_without_saving(a), st)
        ELSE EditorKey(a, st, k)

\* App::handle_key_event: the handler of the current screen
handle_key_event(a, st, k, f, overflow_checks) ==
    CASE a.current_screen \in {"AddList", "ModifyList"} ->
             handle_add_or_modify_list_screen_key(a, st, k, f)
      [] a.current_screen \in {"AddItem", "ModifyItem"} ->
             handle_add_or_modify_item_screen_key(a, st, k, f)
      [] a.current_screen = "DBSelection" -> handle_change_db_screen_key(a, st, k, f)
      [] a.current_screen = "AddDB" -> handle_add_db_screen_key(a, st, k, f)
      [] a.current_screen = "ModifyDB" -> handle_modify_db_screen_key(a, st, k, f)
      [] a.current_screen = "ListSelection" -> handle_list_selection_screen_key(a, st, k, f)
      [] a.current_screen = "ItemSelection" ->
             handle_item_selection_screen_key(a, st, k, f, overflow_checks)
      [] a.current_screen = "Help" -> handle_help_screen_key(a, st, k)
      [] a.current_screen = "LeaderHelp" -> handle_leader_help_screen_key(a, st, k)
      [] a.current_screen = "DeleteListConfirmation" ->
             handle_delete_list_confirmation_key(a, st, k, f)
      [] a.current_screen = "DeleteDatabaseConfirmation" ->
             handle_delete_database_confirmation_key(a, st, k, f)

\* ----------------------------------------------------------------- render
\* Widget for &mut App, as far as it writes the state: rendering the lists
\* clamps list_state; rendering the items of the selected list clamps its
\* item_state, except that an empty item list returns before the List
\* widget is rendered.
Render(a) ==
    LET lc == a.lists_component
        sel == ListState_rendered(lc.list_state, Len(lc.lists))
        lc1 == [lc EXCEPT !.list_state = sel]
    IN  IF has_selected_list(lc1) /\ Len(get_selected_list(lc1).items) # 0
        THEN [a EXCEPT !.lists_component =
                 [lc1 EXCEPT !.lists[sel + 1].item_state =
                     ListState_rendered(@, Len(lc1.lists[sel + 1].items))]]
        ELSE [a EXCEPT !.lists_component = lc1]

\* ------------------------------------------------------------------- Init
\* App::new: the default database of the config is opened and its lists are
\* loaded; nothing is selected; the first screen is list selection.
\* a connection string is modelled by the stem of the file it names
DefaultDB == [name |-> <<"d">>, connection_str |-> <<"judo">>]

Item(id, name) == [id |-> id, name |-> name, is_done |-> FALSE]

\* what the database file may hold when the program starts
InitialDatabases ==
    { [lists |-> <<>>, next_list |-> 1, next_item |-> 1],
      [lists |-> << [id |-> 1, name |-> <<"a">>,
                     items |-> << Item(1, <<"a">>), Item(2, <<" ">>), Item(3, <<"e_acute">>) >>],
                    [id |-> 2, name |-> <<"e_acute">>, items |-> <<>>] >>,
       next_list |-> 3, next_item |-> 4],
      [lists |-> << [id |-> 1, name |-> <<"a">>, items |-> <<>>],
                    [id |-> 2, name |-> <<" ">>, items |-> <<>>],
                    [id |-> 3, name |-> <<"e_acute">>, items |-> <<>>] >>,
       next_list |-> 4, next_item |-> 1] }

App_new(db) ==
    [config |-> [default |-> DefaultDB.name, dbs |-> <<DefaultDB>>],
     current_db_config |-> DefaultDB,
     current_screen |-> "ListSelection",
     last_active_screen |-> "ListSelection",
     pool |-> DefaultDB.connection_str,
     lists_component |-> load_lists(ListsComponent_new, db),
     input_state |-> InputState_default,
     selected_db_index |-> 0,
     exit |-> FALSE,
     pending_delete_list_name |-> NoName,
     pending_delete_db_name |-> NoName,
     leader_awaiting |-> FALSE,
     number_modifier |-> 0,
     keys_buffer |-> <<>>,
     awaiting_second_g |-> FALSE]

NoKey == Key("")

Init ==
    \E db \in InitialDatabases :
        /\ store = [c \in {DefaultDB.connection_str} |-> db]
        /\ app = App_new(db)
        /\ key = NoKey
        /\ failed = FALSE
        /\ panicked = FALSE

\* ------------------------------------------------------------------- Next
\* f, the storage call of the event that fails: 0 none, 1 the first (nothing
\* is written)
NoFault == {0}
FirstCallFails == {0, 1}

\* only the keys that delegate to storage can meet a storage failure (Fs: the
\* failures a specification injects), and only `G` computes the difference
\* that can overflow
FaultsOf(k, Fs) ==
    IF k.code \in {"J", "K", "Up", "Down", "d", "y", "Y", "Enter", "s"} THEN Fs ELSE {0}

OverflowChecksOf(k) == IF k.code = "G" THEN BOOLEAN ELSE {TRUE}

Running == ~app.exit /\ ~panicked

\* the bounds of the model
WithinBounds(r) ==
    /\ Len(r.app.keys_buffer) <= MaxKeysBuffer
    /\ Len(r.app.input_state.current_input) <= MaxText
    /\ Len(r.app.config.dbs) <= MaxDbs
    /\ \A i \in 1..Len(r.app.lists_component.lists) :
           \/ r.app.lists_component.lists[i].item_state <= MaxIndex
           \/ r.app.lists_component.lists[i].item_state = USIZE_MAX
    /\ \A c \in DOMAIN r.store :
           /\ r.store[c].next_list <= MaxListId + 1
           /\ r.store[c].next_item <= MaxItemId + 1

\* one iteration of App::run has handled key event k with outcome r
Handled(k, r) ==
    /\ WithinBounds(r)
    /\ app' = r.app
    /\ store' = r.store
    /\ key' = k
    /\ failed' = r.failed
    /\ panicked' = r.panic

\* App::handle_key_event, one action per handler, the key drawn from Keys
ListSelectionKey(Keys, Fs) ==
    /\ Running /\ app.current_screen = "ListSelection"
    /\ \E k \in Keys : \E f \in FaultsOf(k, Fs) :
           Handled(k, handle_list_selection_screen_key(Render(app), store, k, f))

ItemSelectionKey(Keys, Fs) ==
    /\ Running /\ app.current_screen = "ItemSelection"
    /\ \E k \in Keys : \E f \in FaultsOf(k, Fs), overflow_checks \in OverflowChecksOf(k) :
           Handled(k, handle_item_selection_screen_key(Render(app), store, k, f,
                                                       overflow_checks))

ChangeDbKey(Keys, Fs) ==
    /\ Running /\ app.current_screen = "DBSelection"
    /\ \E k \in Keys : \E f \in FaultsOf(k, Fs) :
           Handled(k, handle_change_db_screen_key(Render(app), store, k, f))

HelpKey(Keys) ==
    /\ Running /\ app.current_screen = "Help"
    /\ \E k \in Keys :
           Handled(k, handle_help_screen_key(Render(app), store, k))

LeaderHelpKey(Keys) ==
    /\ Running /\ app.current_screen = "LeaderHelp"
    /\ \E k \in Keys :
           Handled(k, handle_leader_help_screen_key(Render(app), store, k))

DeleteListConfirmationKey(Keys, Fs) ==
    /\ Running /\ app.current_screen = "DeleteListConfirmation"
    /\ \E k \in Keys : \E f \in FaultsOf(k, Fs) :
           Handled(k, handle_delete_list_confirmation_key(Render(app), store, k, f))

AddOrModifyListKey(Keys, Fs) ==
    /\ Running /\ app.current_screen \in {"AddList", "ModifyList"}
    /\ \E k \in Keys : \E f \in FaultsOf(k, Fs) :
           Handled(k, handle_add_or_modify_list_screen_key(Render(app), store, k, f))

AddOrModifyItemKey(Keys, Fs) ==
    /\ Running /\ app.current_screen \in {"AddItem", "ModifyItem"}
    /\ \E k \in Keys : \E f \in FaultsOf(k, Fs) :
           Handled(k, handle_add_or_modify_item_screen_key(Render(app), store, k, f))

DeleteDatabaseConfirmationKey(Keys, Fs) ==
    /\ Running /\ app.current_screen = "DeleteDatabaseConfirmation"
    /\ \E k \in Keys : \E f \in FaultsOf(k, Fs) :
           Handled(k, handle_delete_database_confirmation_key(Render(app), store, k, f))

AddDbKey(Keys, Fs) ==
    /\ Running /\ app.current_screen = "AddDB"
    /\ \E k \in Keys : \E f \in FaultsOf(k, Fs) :
           Handled(k, handle_add_db_screen_key(Render(app), store, k, f))

ModifyDbKey(Keys, Fs) ==
    /\ Running /\ app.current_screen = "ModifyDB"
    /\ \E k \in Keys : \E f \in FaultsOf(k, Fs) :
           Handled(k, handle_modify_db_screen_key(Render(app), store, k, f))

\* ------------------------------------------------ the ordered collections
\* The list and item screens under the keys that select, count, reorder and
\* delete, from every initial database; a storage call may fail.
CollectionKeys ==
    { Key("j"), Key("k"), ShiftKey("J"), ShiftKey("K"), ShiftKey("G"), Key("g"),
      Key("l"), Key("h"), Key("d"), Key("y"), Key("n"), Key("Esc"), Key("2") }

NextCollections ==
    \/ ListSelectionKey(CollectionKeys, FirstCallFails)
    \/ ItemSelectionKey(CollectionKeys, FirstCallFails)
    \/ DeleteListConfirmationKey(CollectionKeys, FirstCallFails)

SpecCollections == Init /\ [][NextCollections]_vars

\* ------------------------------------------------------- the cursor editor
\* The add-list and modify-list screens under the editing keys: the buffer
\* starts empty (`a`) or pre-filled with the name of the selected list, cursor
\* 0 (`m`); Esc clears it.
EditorEntryKeys == { Key("j"), Key("a"), Key("m") }

EditorKeys ==
    { Key("a"), Key("e_acute"), Key(" "), Key("Backspace"), Key("Delete"),
      Key("Left"), Key("Right"), Key("Esc") }

NextEditor ==
    \/ ListSelectionKey(EditorEntryKeys, NoFault)
    \/ AddOrModifyListKey(EditorKeys, NoFault)

SpecEditor == Init /\ [][NextEditor]_vars

\* ---------------------------------------------------- the item operations
\* The item screen under every key that works on the selected item, reached
\* from the list screen with `l`; `m` opens the modify-item screen, left
\* again with Esc.
ItemEntryKeys == { Key("j"), Key("k"), Key("l") }

ItemKeys ==
    { Key("j"), Key("k"), Key("g"), Key("h"), Key("Enter"), Key("d"), Key("m"),
      ShiftKey("J"), ShiftKey("K"), Key("2") }

NextItems ==
    \/ ListSelectionKey(ItemEntryKeys, NoFault)
    \/ ItemSelectionKey(ItemKeys, FirstCallFails)
    \/ AddOrModifyItemKey({Key("Esc")}, NoFault)

SpecItems == Init /\ [][NextItems]_vars

\* ------------------------------------------------------ the number modifier
\* The list and item screens under the digits and the keys that consume or
\* clear the count.
CountingKeys ==
    { Key("0"), Key("1"), Key("2"), Key("j"), Key("k"), ShiftKey("J"), ShiftKey("K"),
      Key("l"), Key("h"), Key("Esc") }

NextCounting ==
    \/ ListSelectionKey(CountingKeys, FirstCallFails)
    \/ ItemSelectionKey(CountingKeys, FirstCallFails)

SpecCounting == Init /\ [][NextCounting]_vars

\* ------------------------------------------------------- the confirmations
\* The three primary screens under the delete key, and the two confirmation
\* screens under the affirmative, the negative and other keys; a storage or
\* config write may fail.
ConfirmationKeys ==
    { Key("j"), Key("l"), Key("Tab"), Key("d"), Key("y"), ShiftKey("Y"),
      Key("n"), ShiftKey("N"), Key("Esc"), Key("q"), Key("x") }

NextConfirmations ==
    \/ ListSelectionKey(ConfirmationKeys, FirstCallFails)
    \/ ItemSelectionKey(ConfirmationKeys, FirstCallFails)
    \/ ChangeDbKey(ConfirmationKeys, FirstCallFails)
    \/ DeleteListConfirmationKey(ConfirmationKeys, FirstCallFails)
    \/ DeleteDatabaseConfirmationKey(ConfirmationKeys, FirstCallFails)

SpecConfirmations == Init /\ [][NextConfirmations]_vars

\* ------------------------------------------------------ the modal screens
\* The six modal text screens, opened from the three primary screens with
\* `a` and `m`, under Right, Enter and Esc (a name can be typed for a new
\* database); a storage or config write may fail.
ModalEntryKeys == { Key("j"), Key("l"), Key("Tab"), Key("a"), Key("m") }

ModalKeys == { Key("Right"), Key("Enter"), Key("Esc") }

NextModal ==
    \/ ListSelectionKey(ModalEntryKeys, NoFault)
    \/ ItemSelectionKey(ModalEntryKeys, NoFault)
    \/ ChangeDbKey(ModalEntryKeys, NoFault)
    \/ AddOrModifyListKey(ModalKeys, FirstCallFails)
    \/ AddOrModifyItemKey(ModalKeys, FirstCallFails)
    \/ AddDbKey(ModalKeys \cup {Key("a")}, FirstCallFails)
    \/ ModifyDbKey(ModalKeys, FirstCallFails)

SpecModal == Init /\ [][NextModal]_vars

\* ---------------------------------------------------- the add-list screen
\* The add-list screen, opened from the list screen with `a`, under the keys
\* that type a blank or non-blank name, Enter and Esc; storage may fail.
AddListEntryKeys == { Key("a") }

AddListKeys == { Key("a"), Key(" "), Key("Enter"), Key("Esc") }

NextAddList ==
    \/ ListSelectionKey(AddListEntryKeys, NoFault)
    \/ AddOrModifyListKey(AddListKeys, FirstCallFails)

SpecAddList == Init /\ [][NextAddList]_vars

\* ------------------------------------------- the modal screens, other keys
\* The six modal text screens under the editing keys and the keys that are
\* global on a primary screen (q, a digit, Space, Tab); nothing is submitted.
ModalFrameKeys ==
    { Key("q"), Key("1"), Key(" "), Key("Tab"), Key("Backspace"), Key("Right"),
      Key("Esc") }

NextModalFrame ==
    \/ ListSelectionKey(ModalEntryKeys, NoFault)
    \/ ItemSelectionKey(ModalEntryKeys, NoFault)
    \/ ChangeDbKey(ModalEntryKeys, NoFault)
    \/ AddOrModifyListKey(ModalFrameKeys, NoFault)
    \/ AddOrModifyItemKey(ModalFrameKeys, NoFault)
    \/ AddDbKey(ModalFrameKeys, NoFault)
    \/ ModifyDbKey(ModalFrameKeys, NoFault)

SpecModalFrame == Init /\ [][NextModalFrame]_vars

\* ----------------------------------------------------------- navigation
\* The three primary screens under the keys that move the selection and the
\* keys that change the screen, and the Leader-Help screen under its keys.
NavigationKeys ==
    { Key("j"), Key("k"), Key("l"), Key("Right"), Key("h"), Key("Tab"),
      ShiftKey("BackTab"), Key(" ") }

LeaderKeys == { Key("1"), Key("2"), Key("3"), Key("Esc"), Key("x") }

NextNavigation ==
    \/ ListSelectionKey(NavigationKeys, NoFault)
    \/ ItemSelectionKey(NavigationKeys, NoFault)
    \/ ChangeDbKey(NavigationKeys, NoFault)
    \/ LeaderHelpKey(LeaderKeys)

SpecNavigation == Init /\ [][NextNavigation]_vars

\* ------------------------------------------------------------ the screens
\* Every screen: the three primary screens under the keys that change the
\* screen (the list screen also under `j`, the database screen also under
\* Enter), and the ten other screens under Tab, Shift+Tab and the keys that
\* leave them; nothing is typed or deleted, so the collections stay as they
\* start.
ScreenChangeKeys ==
    { Key("Tab"), ShiftKey("BackTab"), Key("a"), Key("m"), Key(" "), CtrlKey("h") }

ListScreenKeys == ScreenChangeKeys \cup { Key("j"), Key("l"), Key("d") }

ItemScreenKeys == ScreenChangeKeys \cup { Key("h") }

DbScreenKeys == ScreenChangeKeys \cup { Key("d"), Key("Enter") }

ModalScreenKeys == { Key("Tab"), ShiftKey("BackTab"), Key("Esc"), Key("Enter") }

OtherScreenKeys == ModalScreenKeys \cup { Key("n"), Key("3") }

NextScreens ==
    \/ ListSelectionKey(ListScreenKeys, NoFault)
    \/ ItemSelectionKey(ItemScreenKeys, NoFault)
    \/ ChangeDbKey(DbScreenKeys, NoFault)
    \/ HelpKey(OtherScreenKeys)
    \/ LeaderHelpKey(OtherScreenKeys)
    \/ DeleteListConfirmationKey(OtherScreenKeys, NoFault)
    \/ DeleteDatabaseConfirmationKey(OtherScreenKeys, NoFault)
    \/ AddOrModifyListKey(ModalScreenKeys, NoFault)
    \/ AddOrModifyItemKey(ModalScreenKeys, NoFault)
    \/ AddDbKey(ModalScreenKeys, NoFault)
    \/ ModifyDbKey(ModalScreenKeys, NoFault)

SpecScreens == Init /\ [][NextScreens]_vars

\* --------------------------------------------------------- the global keys
\* The three primary screens under the keys matches_global_keys consumes (q,
\* Ctrl+h, Esc, digits, Space) and the keys that select and change the
\* screen; Help and Leader-Help are left with Esc.
GlobalKeys ==
    { Key("q"), CtrlKey("h"), Key("Esc"), Key("0"), Key("1"), Key(" "),
      Key("j"), Key("l"), Key("Tab"), Key("g") }

HelpScreenKeys == { Key("Esc"), Key("q"), Key("x"), Key("1"), Key(" ") }

NextGlobalKeys ==
    \/ ListSelectionKey(GlobalKeys, NoFault)
    \/ ItemSelectionKey(GlobalKeys, NoFault)
    \/ ChangeDbKey(GlobalKeys, NoFault)
    \/ HelpKey(HelpScreenKeys)
    \/ LeaderHelpKey(HelpScreenKeys)

SpecGlobalKeys == Init /\ [][NextGlobalKeys]_vars

\* ------------------------------------------------- motion and reordering
\* The list and item screens under the vertical keys, plain and shifted, as
\* letters and as arrows, counted or not; a storage call may fail.
VerticalKeys ==
    { Key("j"), Key("k"), Key("Up"), Key("Down"),
      ShiftKey("J"), ShiftKey("K"), ShiftKey("Up"), ShiftKey("Down"),
      Key("l"), Key("h"), Key("2") }

NextVertical ==
    \/ ListSelectionKey(VerticalKeys, FirstCallFails)
    \/ ItemSelectionKey(VerticalKeys, FirstCallFails)

SpecVertical == Init /\ [][NextVertical]_vars

\* --------------------------------------------- the controller over storage
\* Every operation of the two components that writes to storage: create and
\* rename through the modal text screens, delete, reorder.  The database
\* starts with empty tables that have held lists and items before, so that
\* two more of each can be created.  A storage call may fail after the write,
\* at the re-fetch (2), which leaves memory behind storage.
RefetchFails == {0, 2}
ListWriteKeys ==
    { Key("j"), Key("l"), Key("a"), Key("m"), Key("d"), ShiftKey("J"), ShiftKey("K") }
ItemWriteKeys ==
    { Key("j"), Key("a"), Key("m"), Key("d"), ShiftKey("J"), ShiftKey("K") }
NameKeys == { Key("a"), Key("Enter") }
ConfirmKeys == { Key("y") }

NextStorage ==
    \/ ListSelectionKey(ListWriteKeys, RefetchFails)
    \/ ItemSelectionKey(ItemWriteKeys, RefetchFails)
    \/ AddOrModifyListKey(NameKeys, RefetchFails)
    \/ AddOrModifyItemKey(NameKeys, RefetchFails)
    \/ DeleteListConfirmationKey(ConfirmKeys, RefetchFails)

InitStorage ==
    /\ store = [c \in {DefaultDB.connection_str} |->
                   [lists |-> <<>>, next_list |-> MaxListId - 1,
                    next_item |-> MaxItemId - 1]]
    /\ app = App_new(store[DefaultDB.connection_str])
    /\ key = NoKey
    /\ failed = FALSE
    /\ panicked = FALSE

SpecStorage == InitStorage /\ [][NextStorage]_vars

\* ------------------------------------------------------ the storage layer
\* The statements of db/ops.rs on one database file that starts with empty
\* tables, called as the tests of tests/db call them: in any order, with any
\* id an AUTOINCREMENT counter has handed out or is about to.  Here `app` is
\* the caller: the TodoList and the TodoItem struct its latest call on a list
\* and on an item has left it with.  The clock has advanced whenever a
\* statement reads it.
CreatedNames == { <<"a">> }
NewNames == { <<"e_acute">> }
Ticks == {1}

TheTables == store[DefaultDB.connection_str]

InitTables ==
    /\ store = [c \in {DefaultDB.connection_str} |-> EmptyTables]
    /\ app = [list |-> NoRow, item |-> NoRow]
    /\ key = NoKey
    /\ failed = FALSE
    /\ panicked = FALSE

\* a statement has run with outcome r, leaving the caller with the structs a
Executed(r, a) ==
    /\ r.t.next_list <= MaxListId + 1
    /\ r.t.next_item <= MaxItemId + 1
    /\ store' = [store EXCEPT ![DefaultDB.connection_str] = r.t]
    /\ app' = a
    /\ failed' = r.failed
    /\ UNCHANGED <<key, panicked>>

CreateList ==
    \E name \in CreatedNames, tick \in Ticks :
        LET r == Sql_TodoList_create(TheTables, name, tick)
        IN  Executed(r, [app EXCEPT !.list = r.row])

\* the struct of a stored list is fetched by id and renamed
RenameList ==
    \E id \in 1..MaxListId, new_name \in NewNames :
        LET self == Sql_TodoList_get_by_id(TheTables, id)
            r == Sql_TodoList_update_name(TheTables, self, new_name)
        IN  self # NoRow /\ Executed(r, [app EXCEPT !.list = r.row])

\* delete(self) takes the struct: the caller is left without it
DeleteList ==
    \E id \in 1..MaxListId :
        Executed(Sql_TodoList_delete(TheTables, id), [app EXCEPT !.list = NoRow])

CreateItem ==
    \E list_id \in 1..MaxListId, name \in CreatedNames, tick \in Ticks :
        LET r == Sql_TodoItem_create(TheTables, list_id, name, tick)
        IN  Executed(r, [app EXCEPT !.item = r.row])

RenameItem ==
    \E id \in 1..MaxItemId, new_name \in NewNames :
        LET self == Sql_TodoItem_get_by_id(TheTables, id)
            r == Sql_TodoItem_update_name(TheTables, self, new_name)
        IN  self # NoRow /\ Executed(r, [app EXCEPT !.item = r.row])

DeleteItem ==
    \E id \in 1..MaxItemId :
        Executed(Sql_TodoItem_delete(TheTables, id), [app EXCEPT !.item = NoRow])

NextTables == CreateList \/ DeleteList \/ CreateItem \/ DeleteItem

SpecTables == InitTables /\ [][NextTables]_vars

\* the same without deletes, with renames, on tables that are empty after
\* having held lists and items: two more of each can be created
InitRename ==
    /\ store = [c \in {DefaultDB.connection_str} |->
                   [EmptyTables EXCEPT !.next_list = MaxListId - 1,
                                       !.next_item = MaxItemId - 1,
                                       !.clock = MaxListId + MaxItemId - 4]]
    /\ app = [list |-> NoRow, item |-> NoRow]
    /\ key = NoKey
    /\ failed = FALSE
    /\ panicked = FALSE

NextRename == CreateList \/ RenameList \/ CreateItem \/ RenameItem

SpecRename == InitRename /\ [][NextRename]_vars

\* ============================================================= properties
InputText == app.input_state.current_input
CursorPos == app.input_state.cursor_pos
OnListTextScreen == app.current_screen \in {"AddList", "ModifyList"}

\* C1: whatever buffer the editor starts from (empty, or the pre-filled name
\* of a modify screen with the cursor at 0) and whatever editing keys follow,
\* 0 <= cursor_pos <= char_count(text) after every step.
C1_CursorWithinText ==
    /\ 0 <= CursorPos
    /\ CursorPos <= char_count(InputText)

\* a pre-filled buffer that was extended at its end and then lost its last
\* char to Backspace
C1_Witness ==
    /\ key = Key("Backspace") /\ ~panicked
    /\ app.current_screen = "ModifyList"
    /\ char_count(InputText) = 1
    /\ CursorPos = 1

\* C2: the editor addresses the text by char offset: a char c typed at cursor p
\* always succeeds and gives the text with c as its p-th char, the other
\* chars in their order; Backspace at p > 0 removes exactly the (p-1)-th
\* char.
C2_EditsByCharOffset ==
    [][ OnListTextScreen =>
          /\ IsChar(key'.code) =>
                /\ ~panicked'
                /\ app'.input_state.current_input
                       = InsertAt(InputText, CursorPos + 1, key'.code)
          /\ (key'.code = "Backspace" /\ CursorPos > 0) =>
                /\ ~panicked'
                /\ app'.input_state.current_input = RemoveAt(InputText, CursorPos) ]_vars

\* the components as the frame drawn before the next key event leaves them
Drawn == Render(app).lists_component

OnCollectionScreen == app.current_screen \in {"ListSelection", "ItemSelection"}

\* SelectionState invariant of one collection
SelectionStateOK(sel, len) ==
    IF len = 0 THEN sel = None ELSE sel = None \/ (0 <= sel /\ sel < len)

SelectionStatesOK(lc) ==
    /\ SelectionStateOK(lc.list_state, Len(lc.lists))
    /\ \A i \in 1..Len(lc.lists) :
           SelectionStateOK(lc.lists[i].item_state, Len(lc.lists[i].items))

\* C3: after every key event handled on the list-selection or item-selection
\* screen, the list collection and every list's item collection satisfy the
\* SelectionState invariant.
C3_SelectionStateAfterEveryKey ==
    [][ (OnCollectionScreen /\ ~panicked') => SelectionStatesOK(app'.lists_component) ]_vars

ItemOperationKeys ==
    { Key("Enter"), Key("d"), Key("m"), ShiftKey("J"), ShiftKey("K") }

\* the selected list has no item under the selection
NoValidItemSelection(lc) ==
    \/ ~has_selected_list(lc)
    \/ Len(get_selected_list(lc).items) = 0
    \/ get_selected_list(lc).item_state = None
    \/ get_selected_list(lc).item_state >= Len(get_selected_list(lc).items)

\* C4: Enter, d, m and Shift+J/K on the item-selection screen are no-ops
\* (nothing panics, the collections, the storage and the screen stay as they
\* are) whenever the selected list has no items or no valid selection.
C4_ItemOperationsAreNoOps ==
    [][ (/\ app.current_screen = "ItemSelection"
         /\ key' \in ItemOperationKeys
         /\ NoValidItemSelection(Drawn))
        => /\ ~panicked'
           /\ app'.lists_component = Drawn
           /\ store' = store
           /\ app'.current_screen = "ItemSelection" ]_vars

SelectionAfterDelete(i, n) == IF n = 1 THEN None ELSE Min(i, n - 2)

\* C5: a successful delete of the selected entity of a collection of length
\* n > 0 with selection i leaves the selection absent if n = 1 and otherwise
\* at min(i, n-2), for items (`d`) and for lists (`d`, confirmed with `y`).
C5_SelectionAfterDelete ==
    [][ /\ (/\ app.current_screen = "ItemSelection"
             /\ key' = Key("d") /\ ~failed' /\ ~panicked'
             /\ has_selected_list(Drawn)
             /\ get_selected_list(Drawn).item_state # None)
            => (app'.lists_component.lists[Drawn.list_state + 1].item_state
                  = SelectionAfterDelete(get_selected_list(Drawn).item_state,
                                         Len(get_selected_list(Drawn).items)))
        /\ (/\ app.current_screen = "DeleteListConfirmation"
             /\ key' = Key("y") /\ ~failed' /\ ~panicked'
             /\ Drawn.list_state # None)
            => (app'.lists_component.list_state
                  = SelectionAfterDelete(Drawn.list_state, Len(Drawn.lists))) ]_vars

\* the last-but-one or last of three items was deleted: two are left and
\* the selection is on the second
C5_Witness ==
    /\ key = Key("d") /\ ~failed /\ ~panicked
    /\ app.current_screen = "ItemSelection"
    /\ has_selected_list(app.lists_component)
    /\ Len(get_selected_list(app.lists_component).items) = 2
    /\ get_selected_list(app.lists_component).item_state = 1

\* the amounts a reorder is asked for: nothing, one, more than any room, and
\* the largest count of the 16-bit modifier
Amounts == {0, 1, 2, 3, 22, U16 - 1}

ItemIds(ul) == [i \in 1..Len(ul.items) |-> ul.items[i].id]

\* C6: on a valid index i of a collection of length len, for every amount n,
\* move_selected_item_up_by(n) gives selection i - min(n, i) and
\* move_selected_item_down_by(n) gives i + min(n, len-1-i); neither is an
\* error and the index stays within [0, len-1].
C6_ReorderClamps ==
    (has_selected_list(Drawn) /\ ~NoValidItemSelection(Drawn)) =>
        LET ul == get_selected_list(Drawn)
            db == store[app.pool]
            i == ul.item_state
            len == Len(ul.items)
        IN  \A n \in Amounts :
                LET up == move_selected_item_up_by(ul, db, n, 0)
                    down == move_selected_item_down_by(ul, db, n, 0)
                IN  /\ ~up.failed /\ ~up.panic
                    /\ up.ul.item_state = i - Min(n, i)
                    /\ ~down.failed /\ ~down.panic
                    /\ down.ul.item_state = i + Min(n, len - 1 - i)
                    /\ up.ul.item_state \in 0..(len - 1)
                    /\ down.ul.item_state \in 0..(len - 1)

\* Shift+J has taken the second of the three items to the end
C6_Witness ==
    /\ key = ShiftKey("J") /\ ~failed /\ ~panicked
    /\ app.current_screen = "ItemSelection"
    /\ has_selected_list(app.lists_component)
    /\ ItemIds(get_selected_list(app.lists_component)) = <<1, 3, 2>>
    /\ get_selected_list(app.lists_component).item_state = 2

\* the count a counted command consumes
Count(a) == IF a.number_modifier = 0 THEN 1 ELSE a.number_modifier

\* the entity at index i of `before` is at index j of `after`, `d` places
\* further on, and nothing else changed its relative order
MovedBy(before, after, i, j, d) ==
    /\ j # None /\ j < Len(after)
    /\ after[j + 1].id = before[i + 1].id
    /\ j = i + d
    /\ RemoveAt([x \in 1..Len(after) |-> after[x].id], j + 1)
          = RemoveAt([x \in 1..Len(before) |-> before[x].id], i + 1)

ClampedDelta(k, n, i, len) ==
    IF k.code \in {"Down", "J"} THEN Min(n, len - 1 - i) ELSE 0 - Min(n, i)

ReorderKeys == { ShiftKey("J"), ShiftKey("K"), ShiftKey("Up"), ShiftKey("Down") }

\* Shift+Down / Shift+Up on the selected item moves it by the clamped count
ItemReorderFollows ==
    (/\ app.current_screen = "ItemSelection"
     /\ key' \in ReorderKeys /\ ~failed' /\ ~panicked'
     /\ has_selected_list(Drawn) /\ ~NoValidItemSelection(Drawn))
    => LET ul == get_selected_list(Drawn)
           after == app'.lists_component.lists[Drawn.list_state + 1]
       IN  /\ MovedBy(ul.items, after.items, ul.item_state, after.item_state,
                      ClampedDelta(key', Count(app), ul.item_state, Len(ul.items)))
           /\ TodoItem_get_by_list_id(store'[app'.pool], ul.id) = after.items

\* Shift+Down / Shift+Up on the selected list moves it by the clamped count
ListReorderFollows ==
    (/\ app.current_screen = "ListSelection"
     /\ key' \in ReorderKeys /\ ~failed' /\ ~panicked'
     /\ has_selected_list(Drawn))
    => /\ MovedBy(Drawn.lists, app'.lists_component.lists, Drawn.list_state,
                  app'.lists_component.list_state,
                  ClampedDelta(key', Count(app), Drawn.list_state, Len(Drawn.lists)))
       /\ Ids(store'[app'.pool].lists) = Ids(Drawn.lists)
       /\ [x \in 1..Len(Drawn.lists) |-> store'[app'.pool].lists[x].id]
             = [x \in 1..Len(Drawn.lists) |-> app'.lists_component.lists[x].id]

\* C7: after a successful Shift+Down / Shift+Up, counted or not, the selection
\* designates the same entity as before, that entity has moved past exactly
\* the clamped number of neighbours within its parent, in memory and in
\* storage, and the other entities keep their relative order.
C7_ReorderFollowsEntity == [][ItemReorderFollows /\ ListReorderFollows]_vars

MotionKeys == { Key("j"), Key("k"), Key("Up"), Key("Down") }

\* C8: a motion key or a reorder key handled on the list-selection or
\* item-selection screen while the number modifier is nonzero leaves it 0,
\* whether or not a list is selected and whether or not storage succeeds.
C8_CountedCommandResetsModifier ==
    [][ (/\ OnCollectionScreen
         /\ app.number_modifier # 0
         /\ key' \in MotionKeys \cup ReorderKeys
         /\ ~panicked')
        => app'.number_modifier = 0 ]_vars

\* the number of entries of the collection the next counted command acts on
ActiveCollectionLen(a) ==
    IF a.current_screen = "ItemSelection"
    THEN IF has_selected_list(a.lists_component)
         THEN Len(get_selected_list(a.lists_component).items) ELSE 0
    ELSE Len(a.lists_component.lists)

\* C9: after any sequence of digit keys the number modifier never exceeds
\* the number of entries of the active collection.
C9_ModifierWithinActiveCollection ==
    (OnCollectionScreen /\ is_ascii_digit(key.code))
        => app.number_modifier <= ActiveCollectionLen(app)

\* C10: each digit d pressed on a primary screen sets the number modifier to
\* old*10 + d, so that the digits d1..dk pressed in a row leave the decimal
\* number d1...dk, the 16-bit counter never wrapping.
C10_DigitsAccumulateDecimal ==
    [][ (app.current_screen \in MainScreens /\ is_ascii_digit(key'.code))
        => app'.number_modifier = app.number_modifier * 10 + to_digit(key'.code) ]_vars

\* --------------------------------------------------------------------- C11
\* the entities a state holds: lists and items per database file, and the
\* databases the config lists
ListEntities(st) ==
    UNION { { <<c, st[c].lists[i].id>> : i \in 1..Len(st[c].lists) } : c \in DOMAIN st }

ItemEntities(st) ==
    UNION { UNION { { <<c, st[c].lists[i].items[j].id>> :
                        j \in 1..Len(st[c].lists[i].items) } :
                    i \in 1..Len(st[c].lists) } : c \in DOMAIN st }

EntityRemoved ==
    \/ ~(ListEntities(store) \subseteq ListEntities(store'))
    \/ ~(ItemEntities(store) \subseteq ItemEntities(store'))
    \/ Len(app'.config.dbs) < Len(app.config.dbs)

ConfirmedListRemoval ==
    /\ app.current_screen = "DeleteListConfirmation"
    /\ \E i \in 1..Len(store[app.pool].lists) :
           /\ store'[app.pool].lists = RemoveAt(store[app.pool].lists, i)
           /\ app.pending_delete_list_name = SomeName(store[app.pool].lists[i].name)
    /\ app'.config.dbs = app.config.dbs

ConfirmedDatabaseRemoval ==
    /\ app.current_screen = "DeleteDatabaseConfirmation"
    /\ \E i \in 1..Len(app.config.dbs) :
           /\ app'.config.dbs = RemoveAt(app.config.dbs, i)
           /\ app.pending_delete_db_name = SomeName(app.config.dbs[i].name)
    /\ store' = store

\* C11: the delete key (d) pressed on a primary screen removes no list, no
\* item and no database during that event; an entity is removed only by y/Y on
\* a confirmation screen whose pending name is the name of that entity.
C11_DeleteAwaitsConfirmation ==
    [][/\ (app.current_screen \in MainScreens /\ key'.code = "d") => ~EntityRemoved
       /\ EntityRemoved =>
              /\ key'.code \in {"y", "Y"}
              /\ ConfirmedListRemoval \/ ConfirmedDatabaseRemoval]_vars

\* --------------------------------------------------------------------- C12
ConfirmationScreens == {"DeleteListConfirmation", "DeleteDatabaseConfirmation"}

\* the primary screen a confirmation screen is opened from
PriorScreen(screen) ==
    IF screen = "DeleteListConfirmation" THEN "ListSelection" ELSE "DBSelection"

NegativeKeys == {"n", "N", "Esc"}
AffirmativeKeys == {"y", "Y"}

\* C12: on a delete-confirmation screen n, N or Esc clears the pending name
\* and returns to the primary screen the confirmation was opened from, with
\* collections, selections and storage unchanged; any key other than y, Y, n,
\* N, Esc (q included) leaves the whole application state unchanged.
C12_NegativeAndOtherKeys ==
    [][app.current_screen \in ConfirmationScreens =>
          /\ key'.code \in NegativeKeys =>
                 /\ ~panicked' /\ ~failed'
                 /\ app' = [app EXCEPT !.pending_delete_list_name =
                                IF app.current_screen = "DeleteListConfirmation"
                                THEN NoName ELSE @,
                                       !.pending_delete_db_name =
                                IF app.current_screen = "DeleteDatabaseConfirmation"
                                THEN NoName ELSE @,
                                       !.current_screen = PriorScreen(app.current_screen)]
                 /\ store' = store
          /\ key'.code \notin NegativeKeys \cup AffirmativeKeys =>
                 /\ ~panicked' /\ ~failed'
                 /\ app' = app
                 /\ store' = store]_vars

\* a negative key has just closed the database confirmation
C12_Witness ==
    /\ key.code \in NegativeKeys
    /\ app.current_screen = "DBSelection"
    /\ app.pending_delete_db_name = NoName
    /\ Len(app.config.dbs) = 1
    /\ Len(app.keys_buffer) > 0 /\ app.keys_buffer[Len(app.keys_buffer)][1] = "d"

\* --------------------------------------------------------------------- C13
ModalScreens == {"AddList", "ModifyList", "AddItem", "ModifyItem", "AddDB", "ModifyDB"}

\* C13: on every modal text screen, Enter with a non-blank name whose
\* delegated storage or config operation fails leaves the screen, the text
\* and the cursor as they were.
C13_FailedSubmitKeepsScreenAndInput ==
    [][(/\ app.current_screen \in ModalScreens
        /\ key'.code = "Enter"
        /\ ~IsBlank(InputText)
        /\ failed')
       => /\ app'.current_screen = app.current_screen
          /\ app'.input_state.current_input = InputText
          /\ app'.input_state.cursor_pos = CursorPos]_vars

\* --------------------------------------------------------------------- C14
ListNames(lists) == [i \in 1..Len(lists) |-> lists[i].name]

\* C14: on the add-list screen, Enter on a non-blank name with storage
\* succeeding adds exactly one list carrying that name (to storage and to the
\* list collection), empties the input (text empty, cursor 0) and sets the
\* screen to list-selection; Enter on a blank name creates nothing and leaves
\* the screen unchanged.
C14_AddListSubmit ==
    [][(app.current_screen = "AddList" /\ key'.code = "Enter" /\ ~failed') =>
          IF ~IsBlank(InputText)
          THEN /\ ~panicked'
               /\ ListNames(store'[app.pool].lists)
                      = Append(ListNames(store[app.pool].lists), InputText)
               /\ ListNames(app'.lists_component.lists)
                      = Append(ListNames(app.lists_component.lists), InputText)
               /\ Cardinality(ListEntities(store')) = Cardinality(ListEntities(store)) + 1
               /\ app'.input_state.current_input = <<>>
               /\ app'.input_state.cursor_pos = 0
               /\ app'.current_screen = "ListSelection"
          ELSE /\ ~panicked'
               /\ store' = store
               /\ app'.lists_component = app.lists_component
               /\ app'.current_screen = "AddList"]_vars

\* Enter has just created the second list, named "a ", of a database
C14_Witness ==
    /\ key.code = "Enter" /\ ~failed /\ ~panicked
    /\ app.current_screen = "ListSelection"
    /\ Len(app.lists_component.lists) = 2
    /\ app.lists_component.lists[2].name = <<"a", " ">>
    /\ store[app.pool].next_list = 3

\* --------------------------------------------------------------------- C15
\* C15: on a modal text screen every key other than Esc and Enter changes at
\* most the text and the cursor of the input; the screen, the exit flag, the
\* number modifier, the selections, the collections and storage stay as they
\* were (q does not quit, a digit is not counted, Space does not open
\* Leader-Help, Tab does not cycle the screens).
C15_ModalKeysOnlyEdit ==
    [][(/\ app.current_screen \in ModalScreens
        /\ key'.code \notin {"Esc", "Enter"}
        /\ ~panicked')
       => /\ app' = [app EXCEPT !.input_state.current_input = app'.input_state.current_input,
                                 !.input_state.cursor_pos = app'.input_state.cursor_pos]
          /\ store' = store]_vars

\* q has just been typed into the name of a new item
C15_Witness ==
    /\ key.code = "q" /\ ~panicked
    /\ app.current_screen = "AddItem"
    /\ InputText = <<"1", "q">>
    /\ ~app.exit /\ app.number_modifier = 0

\* --------------------------------------------------------------------- C16
\* the name of the entity a modify screen is opened on
TargetName(screen) ==
    LET lc == Drawn
    IN  CASE screen = "ModifyList" -> get_selected_list(lc).name
          [] screen = "ModifyItem" ->
                 get_selected_list(lc).items[get_selected_list(lc).item_state + 1].name
          [] screen = "ModifyDB" -> app.config.dbs[app.selected_db_index + 1].name

\* C16: whenever an add screen is entered the input has empty text, cursor 0
\* and is_modifying = FALSE; whenever a modify screen is entered the text is
\* the current name of the target and is_modifying = TRUE.
C16_InputInitialisedOnEntry ==
    [][(app.current_screen \notin ModalScreens /\ app'.current_screen \in ModalScreens) =>
          IF app'.current_screen \in {"AddList", "AddItem", "AddDB"}
          THEN /\ app'.input_state.current_input = <<>>
               /\ app'.input_state.cursor_pos = 0
               /\ app'.input_state.is_modifying = FALSE
          ELSE /\ app'.input_state.current_input = TargetName(app'.current_screen)
               /\ app'.input_state.is_modifying = TRUE]_vars

\* --------------------------------------------------------------------- C17
\* C17: on the item-selection screen `a` with no list selected, and `m` with
\* no item selected, are no-ops: the screen stays item-selection and the
\* input is unchanged.
C17_AddAndModifyItemNeedSelection ==
    [][(/\ app.current_screen = "ItemSelection"
        /\ \/ key' = Key("a") /\ ~has_selected_list(Drawn)
           \/ key' = Key("m") /\ NoValidItemSelection(Drawn))
       => /\ ~panicked'
          /\ app'.current_screen = "ItemSelection"
          /\ app'.input_state = app.input_state]_vars

\* --------------------------------------------------------------------- C18
\* a key that asks for the item-selection screen from the current screen
EntersItemScreen(screen, k) ==
    \/ screen = "ListSelection" /\ k \in {Key("Right"), Key("l"), Key("Tab")}
    \/ screen = "DBSelection" /\ k = ShiftKey("BackTab")
    \/ screen = "LeaderHelp" /\ k = Key("2")

\* C18: with no list selected, Right / l and Tab on list-selection, Shift+Tab
\* on database-selection and 2 on Leader-Help do not enter the item-selection
\* screen: the screen is unchanged.
C18_ItemScreenNeedsSelectedList ==
    [][(EntersItemScreen(app.current_screen, key') /\ ~has_selected_list(Drawn))
       => app'.current_screen = app.current_screen]_vars

\* --------------------------------------------------------------------- C19
\* selection after an uncounted select-next / select-previous with wraparound
NextWrapped(i, len) ==
    IF len = 0 THEN None ELSE IF i = None THEN 0 ELSE (i + 1) % len

PreviousWrapped(i, len) ==
    IF len = 0 THEN None ELSE IF i = None \/ i = 0 THEN len - 1 ELSE i - 1

SelectNextKeys == {Key("j"), Key("Down")}
SelectPreviousKeys == {Key("k"), Key("Up")}

\* the selection the frame drawn after the key shows
ListIndexShown(a) == Render(a).lists_component.list_state
ItemIndexShown(a) == get_selected_list(Render(a).lists_component).item_state

ListsWrap ==
    app.current_screen = "ListSelection" =>
        LET len == Len(Drawn.lists)
            i == Drawn.list_state
        IN  /\ key' \in SelectNextKeys => ListIndexShown(app') = NextWrapped(i, len)
            /\ key' \in SelectPreviousKeys =>
                   ListIndexShown(app') = PreviousWrapped(i, len)

ItemsWrap ==
    (/\ app.current_screen = "ItemSelection"
     /\ has_selected_list(Drawn)
     /\ app.number_modifier = 0) =>
        LET len == Len(get_selected_list(Drawn).items)
            i == IF len = 0 THEN None ELSE get_selected_list(Drawn).item_state
        IN  /\ key' \in SelectNextKeys => ItemIndexShown(app') = NextWrapped(i, len)
            /\ key' \in SelectPreviousKeys =>
                   ItemIndexShown(app') = PreviousWrapped(i, len)

DatabasesWrap ==
    app.current_screen = "DBSelection" =>
        LET len == Len(app.config.dbs)
            i == app.selected_db_index
        IN  /\ key' \in SelectNextKeys /\ len > 0 =>
                   app'.selected_db_index = NextWrapped(i, len)
            /\ key' \in SelectPreviousKeys /\ len > 0 =>
                   app'.selected_db_index = PreviousWrapped(i, len)

\* C19: on lists, items and databases an uncounted select-next from index i
\* yields (i+1) mod len, select-previous from index 0 yields len-1, and on an
\* empty collection both leave the selection absent.
C19_NavigationWraps == [][ListsWrap /\ ItemsWrap /\ DatabasesWrap]_vars

\* --------------------------------------------------------------------- C20
Max(a, b) == IF a > b THEN a ELSE b

\* C20: a counted motion N j / N k (N >= 1) on the item-selection screen, with
\* selection i in a collection of length len > 0, leaves the selection at
\* min(i+N, len-1) / max(i-N, 0) when the handler returns: it saturates at the
\* boundary and stays inside [0, len-1].
C20_CountedMotionSaturates ==
    [][(/\ app.current_screen = "ItemSelection"
        /\ app.number_modifier >= 1
        /\ key' \in SelectNextKeys \cup SelectPreviousKeys
        /\ ~NoValidItemSelection(Drawn))
       => LET ul == get_selected_list(Drawn)
              i == ul.item_state
              len == Len(ul.items)
              N == app.number_modifier
              after == get_selected_list(app'.lists_component).item_state
          IN  /\ ~panicked'
              /\ key' \in SelectNextKeys => after = Min(i + N, len - 1)
              /\ key' \in SelectPreviousKeys => after = Max(i - N, 0)
              /\ 0 <= after /\ after <= len - 1]_vars

\* --------------------------------------------------------------------- C21
\* C21: scroll_down_by(0) and scroll_up_by(0) leave the selection of a list
\* unchanged, whatever the selection is (absent included) and whatever the
\* number of items (none included).
C21_ZeroCountLeavesSelection ==
    \A i \in 1..Len(app.lists_component.lists) :
        LET ul == app.lists_component.lists[i]
        IN  /\ scroll_down_by(ul, 0).item_state = ul.item_state
            /\ scroll_up_by(ul, 0).item_state = ul.item_state

\* --------------------------------------------------------------------- C22
\* C22: on the item-selection screen a first g leaves the selection unchanged
\* and sets the awaiting-second-key flag; the flag is only ever set right after
\* such a g, and a g that follows immediately moves the selection of the
\* selected list to index 0 and leaves the flag cleared.
C22_SecondGJumpsToFirst ==
    [][/\ app.awaiting_second_g =>
              (key = Key("g") /\ app.current_screen = "ItemSelection")
       /\ (app.current_screen = "ItemSelection" /\ key' = Key("g")) =>
              /\ ~panicked'
              /\ IF ~app.awaiting_second_g
                 THEN /\ app'.lists_component = Drawn
                      /\ app'.awaiting_second_g
                 ELSE /\ ~app'.awaiting_second_g
                      /\ app'.lists_component.list_state = Drawn.list_state
                      /\ has_selected_list(Drawn) =>
                             get_selected_list(app'.lists_component).item_state = 0]_vars

\* g g has just brought the selection of a three-item list to its first item
C22_Witness ==
    /\ key = Key("g") /\ ~panicked
    /\ app.current_screen = "ItemSelection"
    /\ ~app.awaiting_second_g
    /\ app.keys_buffer = << <<"g", FALSE>>, <<"g", FALSE>> >>
    /\ has_selected_list(app.lists_component)
    /\ Len(get_selected_list(app.lists_component).items) = 3
    /\ get_selected_list(app.lists_component).item_state = 0

\* --------------------------------------------------------------------- C23
\* the outcomes of key k on the item-selection screen with no sequence pending
WithoutPendingSequence(k) ==
    { handle_item_selection_screen_key(
          [Render(app) EXCEPT !.awaiting_second_g = FALSE], store, k, f, oc) :
      f \in FaultsOf(k, FirstCallFails), oc \in OverflowChecksOf(k) }

\* C23: after a first g on the item-selection screen, a next key other than g
\* clears the awaiting-second-key flag and has exactly the effect (screen,
\* selections, number modifier, collections, storage, exit flag) it has with
\* no sequence pending: it is not taken for the second key, it is not
\* dropped, and there is no jump to the first item.
C23_OtherKeyCancelsSequence ==
    [][(app.awaiting_second_g /\ key'.code # "g") =>
          /\ ~app'.awaiting_second_g
          /\ \E r \in WithoutPendingSequence(key') :
                 /\ app' = r.app
                 /\ store' = r.store
                 /\ failed' = r.failed
                 /\ panicked' = r.panic]_vars

\* g, then j: the selection of a three-item list has gone from the first item
\* to the second
C23_Witness ==
    /\ key = Key("j") /\ ~panicked
    /\ app.current_screen = "ItemSelection"
    /\ ~app.awaiting_second_g
    /\ app.keys_buffer = << <<"g", FALSE>>, <<"j", FALSE>> >>
    /\ has_selected_list(app.lists_component)
    /\ Len(get_selected_list(app.lists_component).items) = 3
    /\ get_selected_list(app.lists_component).item_state = 1

\* --------------------------------------------------------------------- C24
\* the persisted order of every collection: the list ids, and per list the
\* item ids, of every database
PersistedOrder(st) ==
    [c \in DOMAIN st |->
        [i \in 1..Len(st[c].lists) |->
            <<st[c].lists[i].id,
              [j \in 1..Len(st[c].lists[i].items) |-> st[c].lists[i].items[j].id]>>]]

\* the id of the entity the selection of the screen designates, 0 for none
SelectedEntity(lc, screen) ==
    IF screen = "ListSelection"
    THEN IF has_selected_list(lc) THEN get_selected_list(lc).id ELSE 0
    ELSE IF NoValidItemSelection(lc) THEN 0
         ELSE get_selected_list(lc).items[get_selected_list(lc).item_state + 1].id

\* C24: on the list-selection and item-selection screens Up, Down, j, k
\* without shift leave the persisted order of every collection as it is, and
\* Up, Down, J, K with shift do not navigate: the selection designates the
\* same entity before and after the key.
C24_ShiftGatesReorder ==
    [][OnCollectionScreen =>
          /\ key' \in MotionKeys =>
                 /\ PersistedOrder(store') = PersistedOrder(store)
                 /\ UIList_get_all(store'[app'.pool])
                        = [i \in 1..Len(app'.lists_component.lists) |->
                              [app'.lists_component.lists[i] EXCEPT !.item_state = None]]
          /\ key' \in ReorderKeys =>
                 SelectedEntity(app'.lists_component, app.current_screen)
                     = SelectedEntity(Drawn, app.current_screen)]_vars

\* Shift+Down has taken the second of three lists to the end, the selection
\* with it
C24_Witness ==
    /\ key = ShiftKey("Down") /\ ~failed /\ ~panicked
    /\ app.current_screen = "ListSelection"
    /\ [i \in 1..Len(store[app.pool].lists) |-> store[app.pool].lists[i].id] = <<1, 3, 2>>
    /\ app.lists_component.list_state = 2

\* --------------------------------------------------------------------- C25
\* the ring of the primary screens
RingNext(screen) ==
    CASE screen = "ListSelection" -> "ItemSelection"
      [] screen = "ItemSelection" -> "DBSelection"
      [] screen = "DBSelection" -> "ListSelection"

RingPrevious(screen) ==
    CASE screen = "ListSelection" -> "DBSelection"
      [] screen = "ItemSelection" -> "ListSelection"
      [] screen = "DBSelection" -> "ItemSelection"

\* the App after the next frame is drawn and key k is handled
Press(a, k) == handle_key_event(Render(a), store, k, 0, TRUE).app

\* C25: on a primary screen Tab gives the next screen of the ring list ->
\* item -> database -> list and Shift+Tab the previous one; Tab then Shift+Tab,
\* Shift+Tab then Tab, and three Tabs in a row give the starting screen; on
\* every other screen Tab and Shift+Tab leave the screen as it is.
C25_TabRing ==
    LET s == app.current_screen
        tab == Key("Tab")
        back == ShiftKey("BackTab")
    IN  IF s \in MainScreens
        THEN /\ Press(app, tab).current_screen = RingNext(s)
             /\ Press(app, back).current_screen = RingPrevious(s)
             /\ Press(Press(app, tab), back).current_screen = s
             /\ Press(Press(app, back), tab).current_screen = s
             /\ Press(Press(Press(app, tab), tab), tab).current_screen = s
        ELSE /\ Press(app, tab).current_screen = s
             /\ Press(app, back).current_screen = s

\* Shift+Tab has just brought the item screen back from the database screen
C25_Witness ==
    /\ key = ShiftKey("BackTab") /\ ~panicked
    /\ app.current_screen = "ItemSelection"
    /\ app.last_active_screen = "ItemSelection"
    /\ app.keys_buffer = << <<"BackTab", FALSE>> >>

\* --------------------------------------------------------------------- C26
LeaderKey == Key(" ")

\* C26: the leader key (Space) on a primary screen opens Leader-Help and sets
\* leader-awaiting when the number modifier is 0, and Leader-Help is opened
\* only so; with a nonzero number modifier the screen, the number modifier,
\* the selections and the leader-awaiting flag are unchanged.
C26_LeaderNeedsZeroCount ==
    [][/\ (app.current_screen \in MainScreens /\ key' = LeaderKey) =>
              IF app.number_modifier = 0
              THEN /\ app'.current_screen = "LeaderHelp"
                   /\ app'.leader_awaiting
              ELSE /\ app'.current_screen = app.current_screen
                   /\ app'.number_modifier = app.number_modifier
                   /\ app'.lists_component = Drawn
                   /\ app'.selected_db_index = app.selected_db_index
                   /\ app'.leader_awaiting = app.leader_awaiting
       /\ (app.current_screen # "LeaderHelp" /\ app'.current_screen = "LeaderHelp") =>
              /\ key' = LeaderKey
              /\ app.number_modifier = 0]_vars

\* Space has just been pressed on the item screen with a count of 1 pending
C26_Witness ==
    /\ key = LeaderKey /\ ~panicked
    /\ app.current_screen = "ItemSelection"
    /\ app.number_modifier = 1
    /\ ~app.leader_awaiting
    /\ app.keys_buffer = << <<" ", FALSE>> >>

\* --------------------------------------------------------------------- C27
\* the keys matches_global_keys consumes on a primary screen
IsConsumedGlobalKey(k) ==
    \/ k = Key("q")
    \/ k = CtrlKey("h")
    \/ k = Key("Esc")
    \/ k = LeaderKey
    \/ (is_ascii_digit(k.code) /\ ~k.shift /\ ~k.ctrl)

\* C27: when q, Ctrl+h, Esc, a digit or Space is handled on a primary screen,
\* no per-screen action runs: the selections and the collections stay as
\* drawn, storage is untouched and no modal screen is entered; Ctrl+h on the
\* item screen opens Help, without going to the list screen and without
\* clearing the item selection.
C27_GlobalKeySkipsScreenHandler ==
    [][(app.current_screen \in MainScreens /\ IsConsumedGlobalKey(key')) =>
          /\ ~panicked' /\ ~failed'
          /\ app'.lists_component = Drawn
          /\ app'.selected_db_index = app.selected_db_index
          /\ store' = store
          /\ app'.input_state = app.input_state
          /\ app'.current_screen \in {app.current_screen, "Help", "LeaderHelp"}
          /\ key' = CtrlKey("h") => app'.current_screen = "Help"]_vars

\* Ctrl+h has just opened Help over the item screen, the first item of a
\* three-item list still selected
C27_Witness ==
    /\ key = CtrlKey("h") /\ ~panicked
    /\ app.current_screen = "Help"
    /\ app.last_active_screen = "ItemSelection"
    /\ has_selected_list(app.lists_component)
    /\ Len(get_selected_list(app.lists_component).items) = 3
    /\ get_selected_list(app.lists_component).item_state = 0

\* --------------------------------------------------------------------- C28
\* the event calls go_back: Esc on Help and on Leader-Help, a list add or
\* modify that succeeded, an answer on the list delete confirmation, Enter on
\* the database screen
CallsGoBack ==
    \/ app.current_screen = "Help" /\ key' = Key("Esc")
    \/ app.current_screen = "LeaderHelp" /\ key' = Key("Esc")
    \/ /\ app.current_screen \in {"AddList", "ModifyList"}
       /\ key' = Key("Enter") /\ ~IsBlank(InputText) /\ ~failed'
    \/ /\ app.current_screen = "DeleteListConfirmation"
       /\ key'.code \in AffirmativeKeys \cup NegativeKeys
    \/ app.current_screen = "DBSelection" /\ key' = Key("Enter")

\* the primary screen on which the most recent key event of a primary screen
\* was handled, once the event of this step is over
LastPrimaryScreen ==
    IF app.current_screen \in MainScreens
    THEN app.current_screen
    ELSE app.last_active_screen

\* C28: the remembered last-active screen is always a primary screen; while a
\* non-primary screen is shown it is the primary screen the last primary-screen
\* key event was handled on; so after every go_back the screen is that primary
\* screen.
C28_GoBackToLastPrimaryScreen ==
    /\ [](app.last_active_screen \in MainScreens)
    /\ [][/\ (app.current_screen \in MainScreens /\ app'.current_screen \notin MainScreens)
                 => app'.last_active_screen = app.current_screen
          /\ app.current_screen \notin MainScreens
                 => app'.last_active_screen = app.last_active_screen
          /\ (CallsGoBack /\ ~panicked') =>
                 /\ app'.current_screen \in MainScreens
                 /\ app'.current_screen = LastPrimaryScreen]_vars

\* Esc has just closed the Help screen opened over the database screen
C28_Witness ==
    /\ key = Key("Esc") /\ ~panicked
    /\ app.current_screen = "DBSelection"
    /\ app.last_active_screen = "DBSelection"
    /\ app.keys_buffer = << <<"Esc", FALSE>> >>

\* --------------------------------------------------------------------- C29
\* the database selection is on the database that is open
SelectionOnActiveDatabase(a) ==
    /\ a.selected_db_index < Len(a.config.dbs)
    /\ a.config.dbs[a.selected_db_index + 1].name = a.current_db_config.name
    /\ \A i \in 1..a.selected_db_index : a.config.dbs[i].name # a.current_db_config.name

\* C29: whenever Tab, Shift+Tab or 3 on Leader-Help makes the database
\* screen the current screen, the database selection index is the position of
\* the open database in the configured list.
C29_DatabaseSelectionResynchronised ==
    [][(/\ app.current_screen # "DBSelection"
        /\ app'.current_screen = "DBSelection"
        /\ key' \in {Key("Tab"), ShiftKey("BackTab"), Key("3")})
       => SelectionOnActiveDatabase(app')]_vars

\* --------------------------------------------------------------------- C30
\* C30: whenever a key event changes the current screen, the number modifier
\* is 0 and the key buffer is empty after that event.
C30_ScreenChangeResetsTransients ==
    [][(app'.current_screen # app.current_screen /\ ~panicked')
       => /\ app'.number_modifier = 0
          /\ app'.keys_buffer = <<>>]_vars

\* --------------------------------------------------------------------- C31
\* ids and names of an ordered collection, in order
IdsAndNames(rows) == [i \in 1..Len(rows) |-> [id |-> rows[i].id, name |-> rows[i].name]]

ListWriteScreens == {"ListSelection", "AddList", "ModifyList", "DeleteListConfirmation"}
ItemWriteScreens == {"ItemSelection", "AddItem", "ModifyItem"}

\* the key event has written to storage and nothing has failed
WroteToStorage == store' # store /\ ~failed' /\ ~panicked'

\* C31: after every successful create, rename, delete or move made through
\* the controller, the in-memory collection of the parent that was written
\* to (the lists of the database, the items of the selected list) has the
\* ids, names and order that storage returns for that parent; after a list
\* operation the whole of memory is what UIList::get_all returns.
C31_MemoryRefinesStorage ==
    [][WroteToStorage =>
          /\ app.current_screen \in ListWriteScreens =>
                 /\ IdsAndNames(app'.lists_component.lists)
                        = IdsAndNames(store'[app'.pool].lists)
                 /\ app'.lists_component.lists = UIList_get_all(store'[app'.pool])
          /\ app.current_screen \in ItemWriteScreens =>
                 /\ has_selected_list(app'.lists_component)
                 /\ LET ul == get_selected_list(app'.lists_component)
                    IN  IdsAndNames(ul.items)
                            = IdsAndNames(TodoItem_get_by_list_id(store'[app'.pool], ul.id))]_vars

\* Shift+J has just moved the first of two items below the second
C31_Witness ==
    /\ key = ShiftKey("J") /\ ~failed /\ ~panicked
    /\ app.current_screen = "ItemSelection"
    /\ has_selected_list(app.lists_component)
    /\ LET ul == get_selected_list(app.lists_component)
       IN  /\ Len(ul.items) = 2
           /\ ul.items[1].id > ul.items[2].id
           /\ ul.item_state = 1
           /\ IdsAndNames(ul.items)
                  = IdsAndNames(TodoItem_get_by_list_id(store[app.pool], ul.id))

\* --------------------------------------------------------------------- C32
\* the ids of an ordered result, in order
IdsInOrder(rows) == [i \in 1..Len(rows) |-> rows[i].id]

\* the step has fetched the stored list (item) of this id and renamed it
RenamedList(id) ==
    LET self == Sql_TodoList_get_by_id(TheTables, id)
    IN  /\ self # NoRow
        /\ \E new_name \in NewNames :
               /\ app'.list = Sql_TodoList_update_name(TheTables, self, new_name).row
               /\ TheTables' = Sql_TodoList_update_name(TheTables, self, new_name).t

RenamedItem(id) ==
    LET self == Sql_TodoItem_get_by_id(TheTables, id)
    IN  /\ self # NoRow
        /\ \E new_name \in NewNames :
               /\ app'.item = Sql_TodoItem_update_name(TheTables, self, new_name).row
               /\ TheTables' = Sql_TodoItem_update_name(TheTables, self, new_name).t

\* C32: when a list or an item that was created and is stored is renamed,
\* the name read back from storage by its id and the name of the struct the
\* caller holds are both the new name, the struct keeps its id, and every
\* stored entity keeps its place in the order storage returns.
C32_RenameKeepsIdAndPlace ==
    [][/\ \A id \in 1..MaxListId :
              RenamedList(id) =>
                  /\ app'.list.id = id
                  /\ app'.list.name \in NewNames
                  /\ Sql_TodoList_get_by_id(TheTables', id).name = app'.list.name
                  /\ IdsInOrder(Sql_TodoList_get_all(TheTables'))
                         = IdsInOrder(Sql_TodoList_get_all(TheTables))
                  /\ TheTables'.todo_items = TheTables.todo_items
       /\ \A id \in 1..MaxItemId :
              RenamedItem(id) =>
                  /\ app'.item.id = id
                  /\ app'.item.name \in NewNames
                  /\ Sql_TodoItem_get_by_id(TheTables', id).name = app'.item.name
                  /\ Sql_TodoItem_get_by_id(TheTables', id).list_id
                         = Sql_TodoItem_get_by_id(TheTables, id).list_id
                  /\ \A l \in 1..MaxListId :
                         IdsInOrder(Sql_TodoItem_get_by_list_id(TheTables', l))
                             = IdsInOrder(Sql_TodoItem_get_by_list_id(TheTables, l))
                  /\ TheTables'.todo_lists = TheTables.todo_lists]_vars

\* the first of two lists was created as "a" and has been renamed: it is
\* still first, under its id, with the new name in storage and in the struct
C32_Witness ==
    /\ app.list # NoRow
    /\ app.list.name \in NewNames
    /\ Len(Sql_TodoList_get_all(TheTables)) = 2
    /\ PosOf(Sql_TodoList_get_all(TheTables), app.list.id) = 1
    /\ Sql_TodoList_get_by_id(TheTables, app.list.id).name = app.list.name

\* --------------------------------------------------------------------- C33
StoredListIds == {r.id : r \in TheTables.todo_lists}

EveryItemHasItsList == \A r \in TheTables.todo_items : r.list_id \in StoredListIds

\* creating an item for a list id that is in no stored list (never handed
\* out, or deleted) returns Err and leaves the tables as they were
OrphanCreateRejected ==
    \A list_id \in (1..(MaxListId + 1)) \ StoredListIds, name \in CreatedNames, tick \in Ticks :
        /\ Sql_TodoItem_create(TheTables, list_id, name, tick).failed
        /\ Sql_TodoItem_create(TheTables, list_id, name, tick).t = TheTables

\* the step has removed the list of this id
ListDeleted(id) == id \in StoredListIds /\ id \notin StoredListIds'

\* C33: after any sequence of list and item creations and deletions every
\* stored item refers to a stored list; creating an item for
\* a list that does not exist fails and adds nothing; and a step that deletes
\* a list removes exactly the items of that list, and no other list.
C33_ItemsReferToStoredLists ==
    /\ [](EveryItemHasItsList /\ OrphanCreateRejected)
    /\ [][\A id \in 1..MaxListId :
              ListDeleted(id) =>
                  /\ ~failed'
                  /\ TheTables'.todo_items = {r \in TheTables.todo_items : r.list_id # id}
                  /\ TheTables'.todo_lists = {r \in TheTables.todo_lists : r.id # id}]_vars

\* of the lists 1 and 2 and the items 1, 2 and 3 that were created, list 1
\* has been deleted: list 2 and its item 3 are all that is stored
C33_Witness ==
    /\ ~failed
    /\ StoredListIds = {2}
    /\ {r.id : r \in TheTables.todo_items} = {3}
    /\ TheTables.next_item = 4
    /\ \A r \in TheTables.todo_items : r.list_id = 2

\* --------------------------------------------------------------------- C34
StoredItemIds == {r.id : r \in TheTables.todo_items}

\* an ordered result without the row of this id
WithoutId(ids, id) == LET Other(x) == x # id IN SelectSeq(ids, Other)

ListOrder(t) == IdsInOrder(Sql_TodoList_get_all(t))
ItemOrder(t, list_id) == IdsInOrder(Sql_TodoItem_get_by_list_id(t, list_id))

C35_PendingNameIffConfirmationScreen ==
    /\ (app.pending_delete_list_name # NoName)
           <=> (app.current_screen = "DeleteListConfirmation")
    /\ (app.pending_delete_db_name # NoName)
           <=> (app.current_screen = "DeleteDatabaseConfirmation")

\* d has just been pressed on the database-selection screen: the name of the
\* selected database is pending and the application asks for confirmation
C35_Witness ==
    /\ key = Key("d") /\ ~panicked
    /\ app.current_screen = "DeleteDatabaseConfirmation"
    /\ app.pending_delete_db_name # NoName
    /\ app.pending_delete_list_name = NoName

\* --------------------------------------------------------------------- C36
\* C36: whenever the current screen is not a modal text screen the input is
\* cleared: its text is empty and its cursor is at 0.
C36_InputClearedOffModalScreens ==
    app.current_screen \notin ModalScreens =>
        /\ app.input_state.current_input = <<>>
        /\ app.input_state.cursor_pos = 0

\* Esc has just left the modify-list screen, which had been entered with the
\* name of the selected list as its text
C36_Witness ==
    /\ key = Key("Esc") /\ ~panicked
    /\ app.current_screen = "ListSelection"
    /\ app.input_state.is_modifying
    /\ app.input_state.current_input = <<>>
    /\ app.input_state.cursor_pos = 0

\* --------------------------------------------------------------------- C37
\* C37: q or Esc handled on the Help screen returns to the remembered primary
\* screen and does not set the exit flag.
C37_HelpLeavesWithoutExit ==
    [][(app.current_screen = "Help" /\ key' \in {Key("q"), Key("Esc")}) =>
          /\ app'.current_screen = app.last_active_screen
          /\ ~app'.exit]_vars

\* --------------------------------------------------------------------- C38
\* C38: in every reachable state with the exit flag unset, leader_awaiting is
\* true exactly when the current screen is Leader-Help, and the number
\* modifier is 0 whenever the current screen is Leader-Help.
C38_LeaderAwaitingIffLeaderHelp ==
    ~app.exit =>
        /\ app.leader_awaiting <=> (app.current_screen = "LeaderHelp")
        /\ (app.current_screen = "LeaderHelp") => app.number_modifier = 0

\* a key that is no leader command has just been handled on Leader-Help: the
\* screen is kept and leader_awaiting is set again
C38_Witness ==
    /\ key = Key("x") /\ ~app.exit /\ ~panicked
    /\ app.current_screen = "LeaderHelp"
    /\ app.leader_awaiting
    /\ app.number_modifier = 0

\* --------------------------------------------------------------------- C39
\* C39: in every reachable state whose screen is not one of the three
\* primary screens (the six add/modify screens, Help, Leader-Help, the two
\* delete confirmations), one Esc key event is handled without a panic and
\* leaves the application, still running, on a primary screen.
C39_EscLeavesEveryOtherScreen ==
    (Running /\ app.current_screen \notin MainScreens) =>
        LET r == handle_key_event(Render(app), store, Key("Esc"), 0, TRUE)
        IN  /\ ~r.panic /\ ~r.failed
            /\ ~r.app.exit
            /\ r.app.current_screen \in MainScreens
            /\ r.store = store

\* Esc has just left the modify-database screen for database-selection
C39_Witness ==
    /\ key = Key("Esc") /\ ~panicked /\ ~app.exit
    /\ app.current_screen = "DBSelection"
    /\ app.input_state.is_modifying

\* --------------------------------------------------------------------- C40
\* C40: in every reachable state in which a key can be handled on the
\* database-selection screen, selected_db_index is below the number of
\* configured databases, so that d resolves the name of a database.
C40_DeleteKeyResolvesDatabase ==
    (Running /\ app.current_screen = "DBSelection") =>
        /\ app.selected_db_index < Len(app.config.dbs)
        /\ ~handle_key_event(Render(app), store, Key("d"), 0, TRUE).panic
====
